---- MODULE Spec2Model ----
(***************************************************************************)
(* A model of the hive-agent execution core: the token estimator and the   *)
(* context window manager (context.ts), the todo tracker (todo.ts), the    *)
(* trace builder (trace.ts), the tool dispatcher and the turn loop         *)
(* (executor.ts) and the agent orchestrator with its sub-agent spawn tool  *)
(* (agent.ts).                                                             *)
(*                                                                         *)
(* Strings are TLA+ strings: Len gives their length and \o concatenates,   *)
(* so token estimates are computed from the real text lengths.             *)
(***************************************************************************)
EXTENDS Integers, Sequences, FiniteSets, TLC

VARIABLES
    \* ---- context manager exercised alone (SpecCtx) ----
    cmMaxTokens,      \* ContextManager.maxTokens
    cmStrategy,       \* ContextManager.strategy
    cmCurrentTokens,  \* ContextManager.currentTokens
    cmInput,          \* the message sequence handed to manageContext
    cmOutputs,        \* the results of the successive manageContext calls
    \* ---- todo tracker exercised alone (SpecTodo) ----
    todoItems,        \* TodoManager.items, in Map insertion order
    currentTaskId,    \* TodoManager.currentTaskId (NoId when undefined)
    todoNextId,       \* the next fresh id generateId returns
    todoResult,       \* the ToolResult of the last __todo__ call
    completeReturn,   \* what the last completeCurrentAndNext() returned: [completed, next]
    todoLastAction,   \* the action of the last __todo__ call, "none" before the first
    todoInput,        \* the parsed items parameter of the last set action
    todoCompletes,    \* number of complete actions since the list was last set
    \* ---- trace builder exercised alone (SpecTrace) ----
    spans,            \* the span arena: spans[i].parent is an index, 0 for the root
    currentSpan,      \* index of the span that records events now, 0 before the trace starts
    trace,            \* the Trace totals, filled by endTrace
    \* ---- the orchestrator and its turn loops (Spec) ----
    \* a root run of a Hive and the run of a sub-agent its __task__ tool spawns
    maxIterations,    \* config.maxIterations of each run's Hive
    contextManager,   \* each Hive's ContextManager: [maxTokens, strategy, currentTokens]
    pc,               \* where each run is: idle, top, llm, tools, exec, done
    history,         \* the history array of each run's executeLoop
    sent,             \* managedMessages of the last llm.chat call of each run
    iteration,        \* the loop counter of each run
    toolUseBlocks,    \* the batch of the current turn
    toolResults,      \* the tool_result blocks collected for the batch
    idx,              \* position in the batch of the request being handled
    toolCallLogs,     \* the tool-call log of each run
    agentResult,           \* what each run returned or threw
    llmCalls,         \* number of llm.chat calls each run has made
    nextToolUseId,    \* the next id the backend gives a tool_use block
    cancel,           \* cancellation requested of the root run: none, signal, predicate
    oplog,            \* the tool handlers invoked, in order: [run, id, outcome]
    providedHistory,  \* the history array the caller hands to Hive.run
    historyGiven,     \* whether the caller hands a history array at all
    repository,       \* MemoryRepository: the array stored for the conversation id
    backend,          \* what the LLM backend may ask for: tool kinds, number of tool uses
    rootRuns,         \* number of Hive.run calls made on the root Hive
    toolContext,      \* per run: the ToolContext object Hive.run hands to the tools
    todoManagers,     \* the TodoManager objects made so far, in order of construction
    managerOf,        \* per run: index of the TodoManager its __todo__ tool is bound to
    contexts,         \* the Context objects made so far; the first is the caller's
    contextOf,        \* per run: index of the Context in its ToolContext, 0 before Hive.run
    storeLog,         \* the writes and deletes made on Context objects, in order
    userMessage,      \* the message the caller hands to Hive.run
    hiveConfig,       \* what the root Hive is configured with: [repository, trace, recorder]
    returned,         \* whether Hive.run of each run has returned its result
    sideEffects,      \* the calls of saveHistory, endTrace and record, in order: [run, kind]
    usageReports,     \* the usage reports the backend may attach to a response
    usageTotals,      \* the four token accumulators of each run's executeLoop
    resultUsage,      \* the usage field of the AgentResult each run returned
    usageLog,         \* the usage report of every llm.chat response, in order: [run, report]
    \* ---- review tracker exercised alone (SpecReview) ----
    reviewConfig,     \* ReviewManager.config: [enabled, autoReview, requireApproval]
    currentReview,    \* ReviewManager.currentReview (NoReview when undefined)
    reviewHistory,    \* ReviewManager.reviewHistory
    reviewResult,     \* the ToolResult of the last __review__ call
    reviewLog,        \* the __review__ calls made, in order: [action, params, success]
    reviewClock,      \* what Date.now() returned last
    \* ---- the __task__ tool of one Hive under two interleaved runs (SpecTask) ----
    hiveTrace,        \* whether config.trace of the Hive is set
    currentTraceBuilder, \* Hive.currentTraceBuilder (NoBuilder when undefined)
    traceBuilderOf,   \* per call of Hive.run: its local traceBuilder
    taskPc,           \* per call of Hive.run: idle, loop, sub, done
    parentTraceBuilder, \* per call of Hive.run: the local of the __task__ call in flight
    taskCalls,        \* per call of Hive.run: number of __task__ calls made
    builderCalls      \* the startSubAgent and endSubAgent calls made, in order

ctxVars == <<cmMaxTokens, cmStrategy, cmCurrentTokens, cmInput, cmOutputs>>
todoVars == <<todoItems, currentTaskId, todoNextId, todoResult, completeReturn,
              todoLastAction, todoInput, todoCompletes>>

traceVars == <<spans, currentSpan, trace>>

loopVars == <<maxIterations, contextManager, pc, history, sent, iteration,
              toolUseBlocks, toolResults, idx, toolCallLogs, agentResult, llmCalls,
              nextToolUseId, cancel, oplog, providedHistory, userMessage, hiveConfig,
              returned, sideEffects, historyGiven, repository, backend, rootRuns, toolContext,
              todoManagers, managerOf, contexts, contextOf, storeLog, usageReports, usageTotals, resultUsage, usageLog>>

usageVars == <<usageReports, usageTotals, resultUsage, usageLog>>

callVars == <<providedHistory, userMessage, hiveConfig, returned, sideEffects,
              historyGiven, repository, backend>>

\* the objects Hive.run makes or receives for a run
runVars == <<rootRuns, todoManagers, managerOf, contexts, contextOf, storeLog,
             toolContext>>

hiveVars == <<callVars, runVars>>

reviewVars == <<reviewConfig, currentReview, reviewHistory, reviewResult, reviewLog,
                reviewClock>>

taskVars == <<hiveTrace, currentTraceBuilder, traceBuilderOf, taskPc, parentTraceBuilder,
              taskCalls, builderCalls>>

vars == <<ctxVars, todoVars, traceVars, loopVars, reviewVars, taskVars>>

(***************************************************************************)
(* Bounds of the model.                                                    *)
(***************************************************************************)
\* longest message sequence handed to the context manager in SpecCtx
MaxMessages == 4
\* largest token budget tried in SpecCtx
MaxBudget == 6
\* longest item list given to the todo tool's set action
MaxTodoItems == 3
\* number of todo ids generateId hands out in one behaviour
MaxTodoIds == 6
\* number of spans of one trace in SpecTrace
MaxSpans == 3
\* number of events recorded in one trace in SpecTrace
MaxEvents == 2
\* largest maxIterations a Hive is configured with in Spec
MaxIterations == 2
\* number of tool_use blocks the backends emit in one behaviour of Spec
MaxToolUses == 2
\* the small token budget a root Hive is configured with in Spec
SmallBudget == 12
\* number of tool_use blocks the backends emit in one behaviour of
\* SpecTodoRuns
MaxRunToolUses == 4
\* number of Hive.run calls made on the root Hive
MaxRootRuns == 2
\* number of __review__ calls made in SpecReview
MaxReviewCalls == 3
\* number of __task__ calls of each Hive.run call in SpecTask
MaxTaskCalls == 2

(***************************************************************************)
(* Token estimator (context.ts).                                           *)
(***************************************************************************)
CeilDiv(a, b) == (a + b - 1) \div b

\* a faulty variant: the quotient is rounded down
estimateTokensFloor(text) == Len(text) \div 4

\* Math.ceil(text.length / 4)
estimateTokens(text) == CeilDiv(Len(text), 4)

\* JSON.stringify of a tool input; inputs are kept in serialised form
JSONstringifyInput(input) == input

estimateContentBlockTokens(block) ==
    CASE block.type = "text" -> estimateTokens(block.text)
      [] block.type = "thinking" -> estimateTokens(block.thinking)
      [] block.type = "tool_use" ->
            estimateTokens(block.name) + estimateTokens(JSONstringifyInput(block.input))
      [] block.type = "tool_result" -> estimateTokens(block.content)
      [] OTHER -> 0

RECURSIVE SumBlocks(_)
SumBlocks(blocks) ==
    IF blocks = <<>> THEN 0
    ELSE estimateContentBlockTokens(Head(blocks)) + SumBlocks(Tail(blocks))

\* a message is [role, kind, text, content]: kind "string" when the content is
\* a plain string (typeof content === 'string'), held in text, and "blocks"
\* when it is a block array, held in content
estimateMessageTokens(message) ==
    IF message.kind = "string"
    THEN estimateTokens(message.text)
    ELSE SumBlocks(message.content)

RECURSIVE estimateTotalTokens(_)
estimateTotalTokens(messages) ==
    IF messages = <<>> THEN 0
    ELSE estimateMessageTokens(Head(messages)) + estimateTotalTokens(Tail(messages))

(***************************************************************************)
(* truncateOldMessages (context.ts).                                       *)
(***************************************************************************)
\* the backward scan: i runs from messages.length down to preserveFirst + 1
\* (1-based), adding while the running total stays within maxTokens and
\* stopping at the first message that does not fit
RECURSIVE ScanBack(_, _, _, _, _, _)
ScanBack(messages, maxTokens, preserveFirst, i, totalTokens, remaining) ==
    IF i <= preserveFirst THEN remaining
    ELSE LET msgTokens == estimateMessageTokens(messages[i])
         IN IF totalTokens + msgTokens <= maxTokens
            THEN ScanBack(messages, maxTokens, preserveFirst, i - 1,
                          totalTokens + msgTokens, <<messages[i]>> \o remaining)
            ELSE remaining

\* a faulty variant: drops only the oldest unpinned message on each call
truncateOldestOnly(messages, maxTokens, preserveFirst) ==
    IF Len(messages) <= preserveFirst THEN messages
    ELSE SubSeq(messages, 1, preserveFirst)
            \o SubSeq(messages, preserveFirst + 2, Len(messages))

\* a faulty variant: tests the running total before adding the message, so
\* the last message added may push the total over the limit
RECURSIVE ScanBackLate(_, _, _, _, _, _)
ScanBackLate(messages, maxTokens, preserveFirst, i, totalTokens, remaining) ==
    IF i <= preserveFirst THEN remaining
    ELSE IF totalTokens <= maxTokens
         THEN ScanBackLate(messages, maxTokens, preserveFirst, i - 1,
                           totalTokens + estimateMessageTokens(messages[i]),
                           <<messages[i]>> \o remaining)
         ELSE remaining

truncateLate(messages, maxTokens, preserveFirst) ==
    IF Len(messages) <= preserveFirst THEN messages
    ELSE LET result == SubSeq(messages, 1, preserveFirst)
         IN result \o ScanBackLate(messages, maxTokens, preserveFirst,
                                   Len(messages), estimateTotalTokens(result), <<>>)

\* a faulty variant: a message that does not fit is skipped and the scan
\* goes on to the older ones
RECURSIVE ScanBackSkipping(_, _, _, _, _, _)
ScanBackSkipping(messages, maxTokens, preserveFirst, i, totalTokens, remaining) ==
    IF i <= preserveFirst THEN remaining
    ELSE LET msgTokens == estimateMessageTokens(messages[i])
         IN IF totalTokens + msgTokens <= maxTokens
            THEN ScanBackSkipping(messages, maxTokens, preserveFirst, i - 1,
                                  totalTokens + msgTokens, <<messages[i]>> \o remaining)
            ELSE ScanBackSkipping(messages, maxTokens, preserveFirst, i - 1,
                                  totalTokens, remaining)

truncateSkipping(messages, maxTokens, preserveFirst) ==
    IF Len(messages) <= preserveFirst THEN messages
    ELSE LET result == SubSeq(messages, 1, preserveFirst)
         IN result \o ScanBackSkipping(messages, maxTokens, preserveFirst,
                                       Len(messages), estimateTotalTokens(result), <<>>)

truncateOldMessages(messages, maxTokens, preserveFirst) ==
    IF Len(messages) <= preserveFirst THEN messages
    ELSE LET result == SubSeq(messages, 1, preserveFirst)
             totalTokens == estimateTotalTokens(result)
         IN result \o ScanBack(messages, maxTokens, preserveFirst,
                               Len(messages), totalTokens, <<>>)

\* the default value of the preserveFirst parameter
PreserveFirstDefault == 1

\* the default of config.maxContextTokens
DefaultMaxContextTokens == 100000

(***************************************************************************)
(* ContextManager (context.ts).  manageContext first stores the estimate   *)
(* of its argument in currentTokens (updateTokenCount), then answers by    *)
(* strategy.  The outcome is [threw, value, error, currentTokens].         *)
(***************************************************************************)
Strategies == {"truncate_old", "summarize", "error"}

isWithinLimits(currentTokens, maxTokens) == currentTokens <= maxTokens

getRemainingTokens(currentTokens, maxTokens) ==
    IF maxTokens - currentTokens > 0 THEN maxTokens - currentTokens ELSE 0

\* the message of the Error the error strategy throws
ContextLimitError(currentTokens, maxTokens) ==
    "Context limit exceeded: " \o ToString(currentTokens)
       \o " > " \o ToString(maxTokens) \o " tokens"

\* a faulty variant: the error strategy hands the messages back like an
\* unknown strategy
manageContextErrorIgnored(messages, maxTokens, strategy) ==
    LET currentTokens == estimateTotalTokens(messages)
    IN IF isWithinLimits(currentTokens, maxTokens) \/ strategy = "error"
       THEN [threw |-> FALSE, value |-> messages, error |-> "",
             currentTokens |-> currentTokens]
       ELSE [threw |-> FALSE,
             value |-> truncateOldMessages(messages, maxTokens, PreserveFirstDefault),
             error |-> "", currentTokens |-> currentTokens]

\* a faulty variant: every strategy throws when the messages exceed the budget
manageContextThrowsOnOverflow(messages, maxTokens, strategy) ==
    LET currentTokens == estimateTotalTokens(messages)
    IN IF isWithinLimits(currentTokens, maxTokens)
       THEN [threw |-> FALSE, value |-> messages, error |-> "",
             currentTokens |-> currentTokens]
       ELSE [threw |-> TRUE, value |-> <<>>,
             error |-> ContextLimitError(currentTokens, maxTokens),
             currentTokens |-> currentTokens]

manageContext(messages, maxTokens, strategy) ==
    LET currentTokens == estimateTotalTokens(messages)
    IN IF isWithinLimits(currentTokens, maxTokens)
       THEN [threw |-> FALSE, value |-> messages, error |-> "",
             currentTokens |-> currentTokens]
       ELSE CASE strategy = "truncate_old" ->
                   [threw |-> FALSE,
                    value |-> truncateOldMessages(messages, maxTokens, PreserveFirstDefault),
                    error |-> "", currentTokens |-> currentTokens]
              [] strategy = "summarize" ->
                   [threw |-> FALSE,
                    value |-> truncateOldMessages(messages, maxTokens, PreserveFirstDefault),
                    error |-> "", currentTokens |-> currentTokens]
              [] strategy = "error" ->
                   [threw |-> TRUE, value |-> <<>>,
                    error |-> ContextLimitError(currentTokens, maxTokens),
                    currentTokens |-> currentTokens]
              [] OTHER ->
                   [threw |-> FALSE, value |-> messages, error |-> "",
                    currentTokens |-> currentTokens]

(***************************************************************************)
\* all sequences over S of length at most n
RECURSIVE SeqsUpTo(_, _)
SeqsUpTo(S, n) ==
    IF n = 0 THEN {<<>>}
    ELSE LET shorter == SeqsUpTo(S, n - 1)
         IN shorter \cup {Append(s, x) : s \in {t \in shorter : Len(t) = n - 1}, x \in S}

(***************************************************************************)
(* TodoManager and the __todo__ tool (todo.ts).  The item Map is a         *)
(* sequence in insertion order; generateId is modelled as a fresh id on    *)
(* every call (todoNextId), the timestamps are left out.                   *)
(***************************************************************************)
NoId == 0
NoItem == [id |-> NoId, content |-> "", activeForm |-> "", status |-> "none"]

\* index of the first item satisfying status = st, 0 when there is none
FirstWithStatus(items, st) ==
    IF \E i \in 1..Len(items) : items[i].status = st
    THEN CHOOSE i \in 1..Len(items) :
            /\ items[i].status = st
            /\ \A j \in 1..(i - 1) : items[j].status # st
    ELSE 0

IndexOfId(items, id) ==
    IF \E i \in 1..Len(items) : items[i].id = id
    THEN CHOOSE i \in 1..Len(items) : items[i].id = id
    ELSE 0

getAll(items) == items

getCurrentTask(items, cur) ==
    IF cur = NoId THEN NoItem
    ELSE IF IndexOfId(items, cur) = 0 THEN NoItem ELSE items[IndexOfId(items, cur)]

\* a faulty variant: starts every pending item instead of the first
setAllStartsEvery(todos, nextId) ==
    LET created == [i \in 1..Len(todos) |->
                      [id |-> nextId + i - 1,
                       content |-> todos[i].content,
                       activeForm |-> todos[i].activeForm,
                       status |-> IF todos[i].status \in {"", "pending"}
                                  THEN "in_progress" ELSE todos[i].status]]
        fp == FirstWithStatus(created, "in_progress")
    IN [items |-> created, cur |-> IF fp = 0 THEN NoId ELSE created[fp].id]

\* setAll(todos): clears, creates one item per entry (status given or
\* pending) and starts the first pending one.  Result: [items, cur]
setAll(todos, nextId) ==
    LET created == [i \in 1..Len(todos) |->
                      [id |-> nextId + i - 1,
                       content |-> todos[i].content,
                       activeForm |-> todos[i].activeForm,
                       status |-> IF todos[i].status = "" THEN "pending"
                                  ELSE todos[i].status]]
        fp == FirstWithStatus(created, "pending")
    IN IF fp = 0
       THEN [items |-> created, cur |-> NoId]
       ELSE [items |-> [created EXCEPT ![fp].status = "in_progress"],
             cur |-> created[fp].id]

\* add(content, activeForm): a new pending item at the end of the Map
add(items, nextId, content, activeForm) ==
    Append(items, [id |-> nextId, content |-> content, activeForm |-> activeForm,
                   status |-> "pending"])

\* startTask(id).  Result: [items, cur, item]
startTask(items, cur, id) ==
    LET k == IndexOfId(items, id)
    IN IF k = 0 THEN [items |-> items, cur |-> cur, item |-> NoItem]
       ELSE LET c == IF cur # NoId /\ cur # id THEN IndexOfId(items, cur) ELSE 0
                demoted == IF c # 0 /\ items[c].status = "in_progress"
                           THEN [items EXCEPT ![c].status = "pending"]
                           ELSE items
                started == [demoted EXCEPT ![k].status = "in_progress"]
            IN [items |-> started, cur |-> id, item |-> started[k]]

\* the last index whose status is st, 0 when there is none
LastWithStatus(items, st) ==
    IF \E i \in 1..Len(items) : items[i].status = st
    THEN CHOOSE i \in 1..Len(items) :
            /\ items[i].status = st
            /\ \A j \in (i + 1)..Len(items) : items[j].status # st
    ELSE 0

\* variant of completeTask that starts the last pending item
completeTaskStartsLast(items, cur, id) ==
    LET k == IndexOfId(items, id)
    IN IF k = 0
       THEN [found |-> FALSE, items |-> items, cur |-> cur,
             completed |-> NoItem, next |-> NoItem]
       ELSE LET done == [items EXCEPT ![k].status = "completed"]
                cur1 == IF cur = id THEN NoId ELSE cur
                np == LastWithStatus(done, "pending")
            IN IF np # 0
               THEN LET started == [done EXCEPT ![np].status = "in_progress"]
                    IN [found |-> TRUE, items |-> started, cur |-> started[np].id,
                        completed |-> started[k], next |-> started[np]]
               ELSE [found |-> TRUE, items |-> done, cur |-> cur1,
                     completed |-> done[k], next |-> NoItem]

\* completeTask(id).  Result: [found, items, cur, completed, next]
completeTask(items, cur, id) ==
    LET k == IndexOfId(items, id)
    IN IF k = 0
       THEN [found |-> FALSE, items |-> items, cur |-> cur,
             completed |-> NoItem, next |-> NoItem]
       ELSE LET done == [items EXCEPT ![k].status = "completed"]
                cur1 == IF cur = id THEN NoId ELSE cur
                np == FirstWithStatus(done, "pending")
            IN IF np # 0
               THEN LET started == [done EXCEPT ![np].status = "in_progress"]
                    IN [found |-> TRUE, items |-> started, cur |-> started[np].id,
                        completed |-> started[k], next |-> started[np]]
               ELSE [found |-> TRUE, items |-> done, cur |-> cur1,
                     completed |-> done[k], next |-> NoItem]

\* completeCurrentAndNext().  Result: [items, cur, completed, next]
completeCurrentAndNext(items, cur) ==
    IF cur = NoId
    THEN LET p == FirstWithStatus(items, "pending")
         IN IF p # 0
            THEN LET started == [items EXCEPT ![p].status = "in_progress"]
                 IN [items |-> started, cur |-> started[p].id,
                     completed |-> NoItem, next |-> started[p]]
            ELSE [items |-> items, cur |-> cur, completed |-> NoItem, next |-> NoItem]
    ELSE LET r == completeTask(items, cur, cur)
         IN [items |-> r.items, cur |-> r.cur, completed |-> r.completed, next |-> r.next]

isAllCompleted(items) == \A i \in 1..Len(items) : items[i].status = "completed"

CountStatus(items, st) == Cardinality({i \in 1..Len(items) : items[i].status = st})

getProgress(items) ==
    [total |-> Len(items),
     completed |-> CountStatus(items, "completed"),
     pending |-> CountStatus(items, "pending"),
     inProgress |-> CountStatus(items, "in_progress")]

Label(item) == IF item.activeForm # "" THEN item.activeForm ELSE item.content

NoProgress == [total |-> 0, completed |-> 0, pending |-> 0, inProgress |-> 0]

\* the data of a __todo__ result: the fields the tool fills, the others empty
TodoData(message, todos, current, progress) ==
    [message |-> message, todos |-> todos, current |-> current, progress |-> progress]

TodoFailure(error) ==
    [success |-> FALSE, error |-> error,
     data |-> TodoData("", <<>>, "", NoProgress)]

\* the item lists the model hands to set: the parsed TodoInput array
\* ({content, activeForm}); the tool passes no status on
TodoInputItems ==
    { [content |-> "A", activeForm |-> "Doing A", status |-> ""],
      [content |-> "B", activeForm |-> "", status |-> ""] }
TodoInputs == SeqsUpTo(TodoInputItems, MaxTodoItems)

(***************************************************************************)
(* TraceBuilder (trace.ts).  The span tree is an arena of spans with       *)
(* parent indices.  Costs are integers: rates are in 1/100 $ per 1M        *)
(* tokens, so a cost is in units of 10^-8 $.                               *)
(***************************************************************************)
Counters == {"totalCost", "totalInputTokens", "totalOutputTokens",
             "totalCacheCreationTokens", "totalCacheReadTokens",
             "totalLLMCalls", "totalToolCalls"}

ZeroCounters == [c \in Counters |-> 0]

\* pricing table by model id; an unknown model id gets the zero-cost default
ZeroPricing == [inputPer1M |-> 0, outputPer1M |-> 0, cacheWritePer1M |-> 0, cacheReadPer1M |-> 0]
ModelPricing(modelId) ==
    CASE modelId = "claude-sonnet-4-20250514" ->
            [inputPer1M |-> 300, outputPer1M |-> 1500,
             cacheWritePer1M |-> 375, cacheReadPer1M |-> 30]
      [] modelId = "gpt-4o" ->
            [inputPer1M |-> 250, outputPer1M |-> 1000,
             cacheWritePer1M |-> 0, cacheReadPer1M |-> 0]
      [] OTHER -> ZeroPricing

calculateCost(modelId, inputTokens, outputTokens, cacheCreationTokens, cacheReadTokens) ==
    LET p == ModelPricing(modelId)
    IN inputTokens * p.inputPer1M + outputTokens * p.outputPer1M
         + cacheCreationTokens * p.cacheWritePer1M + cacheReadTokens * p.cacheReadPer1M

\* what one event adds to each counter
EventDelta(event) ==
    IF event.type = "llm_call"
    THEN [totalCost |-> event.cost,
          totalInputTokens |-> event.inputTokens,
          totalOutputTokens |-> event.outputTokens,
          totalCacheCreationTokens |-> event.cacheCreationTokens,
          totalCacheReadTokens |-> event.cacheReadTokens,
          totalLLMCalls |-> 1,
          totalToolCalls |-> 0]
    ELSE [ZeroCounters EXCEPT !["totalToolCalls"] = 1]

\* the span i and its ancestors up to the root
RECURSIVE AncestorsOrSelf(_, _)
AncestorsOrSelf(sp, i) ==
    IF i = 0 THEN {} ELSE {i} \cup AncestorsOrSelf(sp, sp[i].parent)

NewSpan(agentName, parent, depth) ==
    [agentName |-> agentName, parent |-> parent, depth |-> depth,
     status |-> "running", events |-> <<>>, totals |-> ZeroCounters]

\* startAgent: a span at parent.depth + 1 (0 for a root), made current
startAgent(sp, cur, agentName) ==
    [spans |-> Append(sp, NewSpan(agentName, cur, IF cur = 0 THEN 0 ELSE sp[cur].depth + 1)),
     current |-> Len(sp) + 1]

\* a faulty variant: the delta is added to the recording span only
recordEventOwnSpanOnly(sp, cur, event) ==
    [i \in 1..Len(sp) |->
        IF i = cur
        THEN [sp[i] EXCEPT !.events = Append(@, event),
                           !.totals = [c \in Counters |-> @[c] + EventDelta(event)[c]]]
        ELSE sp[i]]

\* recordLLMCall / recordToolCall: the event is appended to the current
\* span, and its delta is added to that span and to every ancestor
recordEvent(sp, cur, event) ==
    [i \in 1..Len(sp) |->
        IF i = cur
        THEN [sp[i] EXCEPT !.events = Append(@, event),
                           !.totals = [c \in Counters |-> @[c] + EventDelta(event)[c]]]
        ELSE IF i \in AncestorsOrSelf(sp, cur)
        THEN [sp[i] EXCEPT !.totals = [c \in Counters |-> @[c] + EventDelta(event)[c]]]
        ELSE sp[i]]

\* endAgent: the current span gets its status and its parent becomes current
endAgent(sp, cur, status) ==
    [spans |-> [sp EXCEPT ![cur].status = status], current |-> sp[cur].parent]

NoTrace == [ended |-> FALSE, totals |-> ZeroCounters]

\* the LLM calls the model records: [modelId, input, output, cache write, cache read]
TraceLLMCalls ==
    { <<"claude-sonnet-4-20250514", 2, 1, 1, 0>>,
      <<"unknown-model", 1, 2, 0, 1>> }

TotalEvents(sp) ==
    LET RECURSIVE Sum(_)
        Sum(i) == IF i = 0 THEN 0 ELSE Len(sp[i].events) + Sum(i - 1)
    IN Sum(Len(sp))

(***************************************************************************)
(* Tool dispatcher and turn loop (executor.ts), orchestrator (agent.ts).   *)
(***************************************************************************)
ASK_USER_TOOL_NAME == "__ask_user__"
OUTPUT_TOOL_NAME == "__output__"
TASK_TOOL_NAME == "__task__"
TODO_TOOL_NAME == "__todo__"

Runs == {"root", "sub"}

\* the tools and sub-agents the root Hive is configured with
UserTools == {"calc", "forget"}
Agents == {"worker"}
\* the tools the sub-agent "worker" is configured with
WorkerTools == {"calc", "forget"}

\* createContextTools: the tools a run gets when it is given a Context
ContextTools == {"context_ls", "context_read", "context_write"}

\* Hive constructor and getRunTools: config.tools, __ask_user__ unless
\* disableAskUser, __task__ when agents are configured, and __todo__
HiveTools(tools, disableAskUser, agents) ==
    tools \cup (IF disableAskUser THEN {} ELSE {ASK_USER_TOOL_NAME})
          \cup (IF agents # {} THEN {TASK_TOOL_NAME} ELSE {})

\* variant of getRunTools in which the sub-agent's Hive gets the parent's
\* agents
getRunToolsSubWithAgents(r) ==
    (IF r = "root" THEN HiveTools(UserTools, FALSE, Agents)
     ELSE HiveTools(WorkerTools, TRUE, Agents))
    \cup {TODO_TOOL_NAME}
    \cup (IF contextOf[r] # 0 THEN ContextTools ELSE {})

getRunTools(r) ==
    (IF r = "root" THEN HiveTools(UserTools, FALSE, Agents)
     ELSE HiveTools(WorkerTools, TRUE, {}))
    \cup {TODO_TOOL_NAME}
    \cup (IF contextOf[r] # 0 THEN ContextTools ELSE {})

\* a ToolResult is [success, error, data]; data is kept as JSON text,
\* "" when undefined
ToolResult(success, error, data) == [success |-> success, error |-> error, data |-> data]

\* JSON.stringify(result) for a ToolResult
JSONstringify(res) ==
    IF res.success
    THEN "{\"success\":true" \o (IF res.data = "" THEN "" ELSE ",\"data\":" \o res.data) \o "}"
    ELSE "{\"success\":false,\"error\":\"" \o res.error \o "\""
            \o (IF res.data = "" THEN "" ELSE ",\"data\":" \o res.data) \o "}"

\* what a tool handler does when invoked: it returns a ToolResult or throws
\* an Error or some other value
ToolOutcomes ==
    { [kind |-> "return", result |-> ToolResult(TRUE, "", "42"), elapsed |-> 7],
      [kind |-> "return", result |-> ToolResult(FALSE, "division by zero", ""), elapsed |-> 5],
      [kind |-> "throwError", message |-> "boom", elapsed |-> 3],
      [kind |-> "throwValue", value |-> 17, elapsed |-> 2] }

\* error instanceof Error ? error.message : String(error)
ThrownMessage(outcome) ==
    IF outcome.kind = "throwError" THEN outcome.message ELSE ToString(outcome.value)

\* a faulty variant: the catch block is missing and the fault escapes
executeToolNoCatch(outcome) ==
    IF outcome.kind = "return"
    THEN [threw |-> FALSE, result |-> outcome.result, durationMs |-> outcome.elapsed]
    ELSE [threw |-> TRUE, result |-> ToolResult(FALSE, "", ""), durationMs |-> 0]

\* executeTool: the handler's result, or a failed result made from what it
\* threw, with the time the call took
executeTool(outcome) ==
    IF outcome.kind = "return"
    THEN [threw |-> FALSE, result |-> outcome.result, durationMs |-> outcome.elapsed]
    ELSE [threw |-> FALSE, result |-> ToolResult(FALSE, ThrownMessage(outcome), ""),
          durationMs |-> outcome.elapsed]

\* a faulty variant: the loop runs once more than maxIterations
loopTestInclusive(i, max) == i <= max

\* the test of the for loop of executeLoop
loopTest(i, max) == i < max

\* the message of the Error thrown after the loop
MaxIterationsError(max) == "Max iterations (" \o ToString(max) \o ") reached"

\* a faulty variant: the text blocks are joined without a separator
RECURSIVE extractTextNoSeparator(_)
extractTextNoSeparator(content) ==
    IF content = <<>> THEN ""
    ELSE (IF Head(content).type = "text" THEN Head(content).text ELSE "")
            \o extractTextNoSeparator(Tail(content))

\* extractText: the text blocks joined by newlines
RECURSIVE extractText(_)
extractText(content) ==
    IF content = <<>> THEN ""
    ELSE LET rest == extractText(Tail(content))
             restHasText == \E i \in 1..Len(Tail(content)) : Tail(content)[i].type = "text"
         IN IF Head(content).type = "text"
            THEN Head(content).text \o (IF restHasText THEN "\n" \o rest ELSE "")
            ELSE rest

IsToolUse(block) == block.type = "tool_use"

ToolUseBlock(id, name, input) == [type |-> "tool_use", id |-> id, name |-> name, input |-> input]

ToolResultBlock(id, content, isError) ==
    [type |-> "tool_result", tool_use_id |-> id, content |-> content, is_error |-> isError]

UserText(text) == [role |-> "user", kind |-> "string", text |-> text, content |-> <<>>]
UserBlocks(blocks) == [role |-> "user", kind |-> "blocks", text |-> "", content |-> blocks]
AssistantBlocks(blocks) == [role |-> "assistant", kind |-> "blocks", text |-> "", content |-> blocks]

\* what a response of the backend says about tokens: usage and cacheUsage
\* are optional fields of an LLMResponse
NoUsageReport ==
    [usage |-> FALSE, cacheUsage |-> FALSE, inputTokens |-> 0, outputTokens |-> 0,
     cacheCreationInputTokens |-> 0, cacheReadInputTokens |-> 0]

UsageReports ==
    { NoUsageReport,
      [usage |-> TRUE, cacheUsage |-> FALSE, inputTokens |-> 3, outputTokens |-> 2,
       cacheCreationInputTokens |-> 0, cacheReadInputTokens |-> 0],
      [usage |-> TRUE, cacheUsage |-> TRUE, inputTokens |-> 1, outputTokens |-> 1,
       cacheCreationInputTokens |-> 4, cacheReadInputTokens |-> 0] }

\* the accumulators as executeLoop declares them
ZeroUsage ==
    [totalInputTokens |-> 0, totalOutputTokens |-> 0,
     totalCacheCreationTokens |-> 0, totalCacheReadTokens |-> 0]

\* a faulty variant: the accumulators take the counts of the latest response
addUsageKeepsLast(totals, report) ==
    [totalInputTokens |-> IF report.usage THEN report.inputTokens ELSE totals.totalInputTokens,
     totalOutputTokens |-> IF report.usage THEN report.outputTokens
                           ELSE totals.totalOutputTokens,
     totalCacheCreationTokens |-> IF report.cacheUsage THEN report.cacheCreationInputTokens
                                  ELSE totals.totalCacheCreationTokens,
     totalCacheReadTokens |-> IF report.cacheUsage THEN report.cacheReadInputTokens
                              ELSE totals.totalCacheReadTokens]

\* "Track usage": the counts of a response are added to the accumulators
addUsage(totals, report) ==
    [totalInputTokens |->
        totals.totalInputTokens + (IF report.usage THEN report.inputTokens ELSE 0),
     totalOutputTokens |->
        totals.totalOutputTokens + (IF report.usage THEN report.outputTokens ELSE 0),
     totalCacheCreationTokens |->
        totals.totalCacheCreationTokens
           + (IF report.cacheUsage THEN report.cacheCreationInputTokens ELSE 0),
     totalCacheReadTokens |->
        totals.totalCacheReadTokens
           + (IF report.cacheUsage THEN report.cacheReadInputTokens ELSE 0)]

\* stands for the JavaScript value undefined in a numeric field
Undefined == -1

\* the usage field of an AgentResult: a cache total of 0 is left undefined
UsageSummary(totals) ==
    [totalInputTokens |-> totals.totalInputTokens,
     totalOutputTokens |-> totals.totalOutputTokens,
     cacheCreationInputTokens |->
        IF totals.totalCacheCreationTokens > 0 THEN totals.totalCacheCreationTokens
        ELSE Undefined,
     cacheReadInputTokens |->
        IF totals.totalCacheReadTokens > 0 THEN totals.totalCacheReadTokens ELSE Undefined]

\* no result has been returned
NoUsageSummary ==
    [totalInputTokens |-> Undefined, totalOutputTokens |-> Undefined,
     cacheCreationInputTokens |-> Undefined, cacheReadInputTokens |-> Undefined]

\* an AgentResult or the fault that left the run
\* (status fault); reason is interrupted.reason, "" when undefined
NoResult ==
    [status |-> "none", response |-> "", pendingQuestion |-> "", reason |-> "", error |-> ""]
CompleteResult(response) == [NoResult EXCEPT !.status = "complete", !.response = response]
NeedsInputResult(question) ==
    [NoResult EXCEPT !.status = "needs_input", !.pendingQuestion = question]
FaultResult(error) == [NoResult EXCEPT !.status = "fault", !.error = error]

\* the contents of the responses whose stop reason is not tool_use
EndContents ==
    { <<[type |-> "text", text |-> "hi"]>>,
      <<[type |-> "text", text |-> "a"], [type |-> "thinking", thinking |-> "hm"],
        [type |-> "text", text |-> "b"]>>,
      <<>> }

\* the requests the model backend makes: [name, input]; the input of the
\* ask-user request of block id is the question "q<id>"
RequestKinds == {"ask", "unknown", "calc", "task", "taskUnknownAgent"}

\* the path a tool use names (two of three name "a"), and the value a
\* context_write carries
PathOf(id) == IF id % 3 = 2 THEN "b" ELSE "a"
ValueOf(id) == "v" \o ToString(id)

Request(kind, id) ==
    CASE kind = "ask" -> ToolUseBlock(id, ASK_USER_TOOL_NAME, "q" \o ToString(id))
      [] kind = "unknown" -> ToolUseBlock(id, "foo", "{}")
      [] kind = "calc" -> ToolUseBlock(id, "calc", "{}")
      [] kind = "task" -> ToolUseBlock(id, TASK_TOOL_NAME, "worker")
      [] kind = "todoSet" -> ToolUseBlock(id, TODO_TOOL_NAME, "t" \o ToString(id))
      [] kind = "todoList" -> ToolUseBlock(id, TODO_TOOL_NAME, "list")
      [] kind = "ctxWrite" -> ToolUseBlock(id, "context_write", PathOf(id))
      [] kind = "ctxRead" -> ToolUseBlock(id, "context_read", PathOf(id))
      [] kind = "ctxDelete" -> ToolUseBlock(id, "forget", PathOf(id))
      [] OTHER -> ToolUseBlock(id, TASK_TOOL_NAME, "ghost")

\* a faulty variant: the question is taken from the first request of the batch
pendingQuestionOfFirst(blocks, i) == blocks[1].input

\* the pending question of the ask-user request at position i of the batch
pendingQuestion(blocks, i) == blocks[i].input

\* a faulty variant: a sub-agent that needs input is reported as a success
taskResultNeedsInputOk(sub) ==
    CASE sub.status = "fault" -> ToolResult(FALSE, sub.error, "")
      [] sub.status = "needs_input" ->
            ToolResult(TRUE, "", "\"" \o sub.pendingQuestion \o "\"")
      [] OTHER ->
            ToolResult(TRUE, "", "{\"summary\":\"" \o sub.response \o "\",\"data\":null}")

\* a faulty variant: the catch block reports a sub-agent that threw as a success
taskResultSwallowsFault(sub) ==
    IF sub.status = "needs_input"
    THEN ToolResult(FALSE, "Sub-agent needs user input", "\"" \o sub.pendingQuestion \o "\"")
    ELSE ToolResult(TRUE, "", "{\"summary\":\"" \o sub.response \o "\",\"data\":null}")

\* createTaskTool.execute after subHive.run has settled: the ToolResult made
\* from the sub-run's AgentResult, or from the fault it threw (the catch)
taskResult(sub) ==
    CASE sub.status = "fault" -> ToolResult(FALSE, sub.error, "")
      [] sub.status = "needs_input" ->
            ToolResult(FALSE, "Sub-agent needs user input", "\"" \o sub.pendingQuestion \o "\"")
      [] sub.status = "interrupted" ->
            ToolResult(FALSE,
                       "Sub-agent was interrupted: "
                          \o (IF sub.reason = "" THEN "unknown" ELSE sub.reason),
                       "{\"reason\":\"" \o sub.reason \o "\"}")
      [] OTHER ->
            ToolResult(TRUE, "", "{\"summary\":\"" \o sub.response \o "\",\"data\":null}")

\* the __task__ handler as executeTool sees it: it always returns
taskOutcome(sub) == [kind |-> "return", result |-> taskResult(sub), elapsed |-> 9]

TextBlock(text) == [type |-> "text", text |-> text]

\* the tool_use blocks left unanswered at the end of a loaded history: those
\* of its last message when that is an assistant message with block content
pendingToolUses(loaded) ==
    IF loaded # <<>> /\ loaded[Len(loaded)].role = "assistant"
          /\ loaded[Len(loaded)].kind = "blocks"
    THEN SelectSeq(loaded[Len(loaded)].content, IsToolUse)
    ELSE <<>>

\* the tool_result Hive.run makes up for a pending tool_use: the new message
\* answers __ask_user__, every other request is marked cancelled
\* (is_error of the answer is left undefined, FALSE here)
pendingToolResult(toolUse, text) ==
    IF toolUse.name = ASK_USER_TOOL_NAME
    THEN ToolResultBlock(toolUse.id,
                         JSONstringify(ToolResult(TRUE, "", "{\"answer\":\"" \o text \o "\"}")),
                         FALSE)
    ELSE ToolResultBlock(toolUse.id,
                         JSONstringify(ToolResult(FALSE,
                                          "Operation cancelled - execution was interrupted", "")),
                         TRUE)

\* variant of prepareMessages that sends the new message as a user message
\* of its own after the user message with the results
prepareMessagesTwoUserMessages(loaded, text) ==
    LET pending == pendingToolUses(loaded)
        results == [i \in 1..Len(pending) |-> pendingToolResult(pending[i], text)]
    IN IF pending # <<>>
       THEN Append(Append(loaded, UserBlocks(results)), UserText(text))
       ELSE Append(loaded, UserText(text))

\* variant of prepareMessages that adds the message as a text block whether
\* or not __ask_user__ was pending
prepareMessagesAlwaysText(loaded, text) ==
    LET pending == pendingToolUses(loaded)
        results == [i \in 1..Len(pending) |-> pendingToolResult(pending[i], text)]
    IN IF pending # <<>>
       THEN Append(loaded, UserBlocks(Append(results, TextBlock(text))))
       ELSE Append(loaded, UserText(text))

\* the messages Hive.run hands to executeLoop: the loaded history and one
\* user message, which answers the pending tool_use blocks if there are any
prepareMessages(loaded, text) ==
    LET pending == pendingToolUses(loaded)
        results == [i \in 1..Len(pending) |-> pendingToolResult(pending[i], text)]
        hasAskUser == \E i \in 1..Len(pending) : pending[i].name = ASK_USER_TOOL_NAME
    IN IF pending # <<>>
       THEN IF hasAskUser
            THEN Append(loaded, UserBlocks(results))
            ELSE Append(loaded, UserBlocks(Append(results, TextBlock(text))))
       ELSE Append(loaded, UserText(text))

\* variant of runMessages that pushes onto the caller's array
runMessagesInPlace(loaded, text) ==
    [messages |-> prepareMessages(loaded, text), history |-> prepareMessages(loaded, text)]

\* the arrays after Hive.run has prepared its messages: messages is a copy
\* ([...history]) that takes the new user message, the caller's array is as
\* it was
runMessages(loaded, text) ==
    [messages |-> prepareMessages(loaded, text), history |-> loaded]

\* Hive.run: the history the run starts from: the array handed in when there
\* is one (an empty array counts), else the array the repository holds for
\* the conversation id, else an empty one
loadHistory(given, provided, cfg, stored) ==
    IF given THEN provided
    ELSE IF cfg.repository THEN stored
    ELSE <<>>

\* variant of saveHistory that appends to what is stored
saveHistoryAppends(stored, messages) == stored \o messages

\* MemoryRepository.saveHistory: the entry becomes a copy of the messages
saveHistory(stored, messages) == messages

\* the backend of the turn-loop specifications: any of RequestKinds, at most
\* MaxToolUses tool uses in all
DefaultBackend == [kinds |-> RequestKinds, maxToolUses |-> MaxToolUses]

\* the backend of SpecTodoRuns: the todo list is set and listed, sub-agents
\* are spawned
TodoRunBackend == [kinds |-> {"task", "todoSet", "todoList"}, maxToolUses |-> MaxRunToolUses]

\* the contents of the items, as the list action's result shows them
RECURSIVE TodoText(_)
TodoText(items) ==
    IF items = <<>> THEN ""
    ELSE items[1].content \o ";" \o TodoText(Tail(items))

\* a TodoManager as constructed: no items, no current task
NewTodoManager == [items |-> <<>>, cur |-> NoId]

\* variant of newTodoManager with one TodoManager kept for all runs
newTodoManagerOnce(managers) ==
    IF managers = <<>>
    THEN [managers |-> <<NewTodoManager>>, id |-> 1]
    ELSE [managers |-> managers, id |-> 1]

\* Hive.run: const todoManager = new TodoManager()
newTodoManager(managers) ==
    [managers |-> Append(managers, NewTodoManager), id |-> Len(managers) + 1]

\* the paths the tools of the model use in a Context
Paths == {"a", "b"}

NoEntry == [value |-> "", writtenBy |-> "", present |-> FALSE]

\* new Context(): an empty Map
EmptyContext == [p \in Paths |-> NoEntry]

\* variant of write that keeps an entry that is already there
writeOnce(store, path, value, writtenBy) ==
    IF store[path].present THEN store
    ELSE [store EXCEPT ![path] = [value |-> value, writtenBy |-> writtenBy, present |-> TRUE]]

\* Context.write: the entry of the path is replaced (timestamps left out)
write(store, path, value, writtenBy) ==
    [store EXCEPT ![path] = [value |-> value, writtenBy |-> writtenBy, present |-> TRUE]]

\* what read answers for a path without entry
UndefinedValue == "undefined"

\* Context.read
read(store, path) == IF store[path].present THEN store[path].value ELSE UndefinedValue

\* Context.getEntry
getEntry(store, path) == store[path]

\* Context.delete: the Map after it
delete(store, path) == [store EXCEPT ![path] = NoEntry]

\* the agentName a run's context tools write under: config.agentName
AgentName(r) == IF r = "root" THEN "" ELSE "worker"

\* the backend of SpecStore: context tools and the user's tool "forget"
\* are called, sub-agents are spawned
StoreBackend ==
    [kinds |-> {"task", "ctxWrite", "ctxRead", "ctxDelete"}, maxToolUses |-> MaxRunToolUses]

\* variant of subRunContext that hands the sub-agent a Context of its own
subRunContextFresh(stores, parentContext) ==
    [contexts |-> Append(stores, EmptyContext), id |-> Len(stores) + 1]

\* createTaskTool: subHive.run(inputMessage, {context: toolCtx.context})
subRunContext(stores, parentContext) ==
    [contexts |-> stores, id |-> parentContext]

\* no ToolContext made yet
NoToolContext == [remainingTokens |-> 0]

\* variant of newToolContext that counts the budget as used up
newToolContextNothingLeft(manager) == [remainingTokens |-> 0]

\* Hive.run: the ToolContext of a run, with the remaining tokens of the
\* Hive's context manager at that moment (conversationId and userId left
\* out, the Context is contextOf)
newToolContext(manager) ==
    [remainingTokens |-> getRemainingTokens(manager.currentTokens, manager.maxTokens)]

\* state before the first Hive.run: no TodoManager made, the caller's
\* Context empty
RunsIdle ==
    /\ rootRuns = 0
    /\ toolContext = [r \in Runs |-> NoToolContext]
    /\ todoManagers = <<>>
    /\ managerOf = [r \in Runs |-> 0]
    /\ contexts = <<EmptyContext>>
    /\ contextOf = [r \in Runs |-> 0]
    /\ storeLog = <<>>

\* a Hive without repository, trace provider or recorder
NoHiveConfig == [repository |-> FALSE, trace |-> FALSE, recorder |-> FALSE]

\* the configurations of the root Hive: repository stands for a repository
\* together with a conversationId in the run's options
FullHiveConfig == [repository |-> TRUE, trace |-> TRUE, recorder |-> TRUE]

RootHiveConfigs == { FullHiveConfig, NoHiveConfig }

\* the Hive the __task__ tool builds for a sub-agent: the parent's trace
\* provider, no repository, no recorder
SubHiveConfig(parent) == [repository |-> FALSE, trace |-> parent.trace, recorder |-> FALSE]

\* variant of finishRun that does not look at options._traceBuilder
finishRunIgnoresNesting(cfg, nested) ==
    (IF cfg.repository THEN <<"saveHistory">> ELSE <<>>)
       \o (IF cfg.trace THEN <<"endTrace">> ELSE <<>>)
       \o (IF cfg.recorder THEN <<"record">> ELSE <<>>)

\* the end of Hive.run, after executeLoop has returned: the calls it makes,
\* in order; nested says that options._traceBuilder was passed by a parent
finishRun(cfg, nested) ==
    (IF cfg.repository THEN <<"saveHistory">> ELSE <<>>)
       \o (IF cfg.trace /\ ~nested THEN <<"endTrace">> ELSE <<>>)
       \o (IF cfg.recorder /\ ~nested THEN <<"record">> ELSE <<>>)

(***************************************************************************)
(* The review tracker (review.ts): ReviewManager and the __review__ tool.  *)
(***************************************************************************)
DEFAULT_REVIEW_CATEGORIES == <<"completeness", "correctness", "quality", "security">>

\* ReviewManager.currentReview before the first submit
NoReview == [passed |-> FALSE, summary |-> "", issues |-> <<>>, reviewedAt |-> Undefined]

NoReviewResult == [success |-> FALSE, error |-> ""]

\* severity.toUpperCase()
SeverityUpper(severity) ==
    CASE severity = "info" -> "INFO"
      [] severity = "warning" -> "WARNING"
      [] severity = "error" -> "ERROR"
      [] OTHER -> "CRITICAL"

\* the severityEmoji table; the pictographs are written as words
SeverityEmoji(severity) ==
    CASE severity = "info" -> "(i)"
      [] severity = "warning" -> "(!)"
      [] severity = "error" -> "(x)"
      [] OTHER -> "(!!)"

\* the lines formatReviewResult pushes for one issue
IssueLines(issue) ==
    <<"  " \o SeverityEmoji(issue.severity) \o " [" \o SeverityUpper(issue.severity)
        \o "] " \o issue.message>>
    \o (IF issue.suggestion # "" THEN <<"     -> Suggestion: " \o issue.suggestion>>
        ELSE <<>>)
    \o (IF issue.location # "" THEN <<"     -> Location: " \o issue.location>> ELSE <<>>)

RECURSIVE AllIssueLines(_)
AllIssueLines(issues) ==
    IF issues = <<>> THEN <<>>
    ELSE IssueLines(Head(issues)) \o AllIssueLines(Tail(issues))

RECURSIVE JoinReviewLines(_)
JoinReviewLines(lines) ==
    IF lines = <<>> THEN ""
    ELSE IF Len(lines) = 1 THEN lines[1]
    ELSE lines[1] \o "\n" \o JoinReviewLines(Tail(lines))

formatReviewResult(review) ==
    JoinReviewLines(
        <<(IF review.passed THEN "(ok)" ELSE "(x)") \o " Review "
            \o (IF review.passed THEN "Passed" ELSE "Failed"),
          "",
          "Summary: " \o review.summary>>
        \o (IF Len(review.issues) > 0
            THEN <<"", "Issues:">> \o AllIssueLines(review.issues)
            ELSE <<>>))

\* ReviewManager.submitReview with Date.now() = now: [review, currentReview, reviewHistory]
submitReviewKeepsFirst(current, hist, result, now) ==
    LET review == [passed |-> result.passed, summary |-> result.summary,
                   issues |-> result.issues, reviewedAt |-> now]
    IN [review |-> review,
        currentReview |-> IF hist = <<>> THEN review ELSE current,
        reviewHistory |-> Append(hist, review)]

submitReview(current, hist, result, now) ==
    LET review == [passed |-> result.passed, summary |-> result.summary,
                   issues |-> result.issues, reviewedAt |-> now]
    IN [review |-> review,
        currentReview |-> review,
        reviewHistory |-> Append(hist, review)]

\* the passed parameter as the model sends it: a boolean, or the string the schema asks for
PassedInputs ==
    { [type |-> "boolean", value |-> "true"],
      [type |-> "boolean", value |-> "false"],
      [type |-> "string", value |-> "true"] }

SummaryInputs == {"", "done"}

ReviewIssuePool ==
    <<[severity |-> "error", message |-> "no validation", suggestion |-> "validate",
       location |-> ""]>>

\* the issues parameter: left out, or an array
IssuesInputs ==
    { [given |-> FALSE, items |-> <<>>], [given |-> TRUE, items |-> ReviewIssuePool] }

ReviewConfigs ==
    { [enabled |-> FALSE, autoReview |-> FALSE, requireApproval |-> FALSE],
      [enabled |-> TRUE, autoReview |-> FALSE, requireApproval |-> TRUE],
      [enabled |-> TRUE, autoReview |-> TRUE, requireApproval |-> TRUE] }

NoReviewParams ==
    [passed |-> [type |-> "undefined", value |-> ""], summary |-> "",
     issues |-> [given |-> FALSE, items |-> <<>>]]

(***************************************************************************)
(* The __task__ tool of a Hive whose run method is called twice.           *)
(***************************************************************************)
HiveRunCalls == {1, 2}

\* Hive.currentTraceBuilder before the first run, or without config.trace
NoBuilder == 0

\* what subHive.run gives the tool: a result with a status, or an exception
SubRunOutcomes == {"complete", "interrupted", "needs_input", "throws"}

(***************************************************************************)
(* Each specification below exercises one part of the program; the state   *)
(* of the parts it does not exercise stays as constructed.                 *)
(***************************************************************************)
CtxIdle ==
    /\ cmMaxTokens = 0
    /\ cmStrategy = "truncate_old"
    /\ cmCurrentTokens = 0
    /\ cmInput = <<>>
    /\ cmOutputs = <<>>

ReviewIdle ==
    /\ reviewConfig = [enabled |-> FALSE, autoReview |-> FALSE, requireApproval |-> FALSE]
    /\ currentReview = NoReview
    /\ reviewHistory = <<>>
    /\ reviewResult = NoReviewResult
    /\ reviewLog = <<>>
    /\ reviewClock = 0

TaskIdle ==
    /\ hiveTrace = FALSE
    /\ currentTraceBuilder = NoBuilder
    /\ traceBuilderOf = [c \in HiveRunCalls |-> NoBuilder]
    /\ taskPc = [c \in HiveRunCalls |-> "idle"]
    /\ parentTraceBuilder = [c \in HiveRunCalls |-> NoBuilder]
    /\ taskCalls = [c \in HiveRunCalls |-> 0]
    /\ builderCalls = <<>>

TodoIdle ==
    /\ todoItems = <<>>
    /\ currentTaskId = NoId
    /\ todoNextId = 1
    /\ todoResult = TodoFailure("")
    /\ completeReturn = [completed |-> NoItem, next |-> NoItem]
    /\ todoLastAction = "none"
    /\ todoInput = <<>>
    /\ todoCompletes = 0

TraceIdle ==
    /\ spans = <<>>
    /\ currentSpan = 0
    /\ trace = NoTrace

DefaultContextManager ==
    [maxTokens |-> DefaultMaxContextTokens, strategy |-> "truncate_old", currentTokens |-> 0]

LoopIdle ==
    /\ maxIterations = [r \in Runs |-> 1]
    /\ contextManager = [r \in Runs |-> DefaultContextManager]
    /\ pc = [r \in Runs |-> "idle"]
    /\ history = [r \in Runs |-> <<>>]
    /\ sent = [r \in Runs |-> <<>>]
    /\ iteration = [r \in Runs |-> 0]
    /\ toolUseBlocks = [r \in Runs |-> <<>>]
    /\ toolResults = [r \in Runs |-> <<>>]
    /\ idx = [r \in Runs |-> 0]
    /\ toolCallLogs = [r \in Runs |-> <<>>]
    /\ agentResult = [r \in Runs |-> NoResult]
    /\ llmCalls = [r \in Runs |-> 0]
    /\ nextToolUseId = 1
    /\ cancel = "none"
    /\ oplog = <<>>
    /\ providedHistory = <<>>
    /\ historyGiven = TRUE
    /\ repository = <<>>
    /\ backend = DefaultBackend
    /\ RunsIdle
    /\ userMessage = "hello"
    /\ hiveConfig = NoHiveConfig
    /\ returned = [r \in Runs |-> FALSE]
    /\ sideEffects = <<>>
    /\ usageReports = {NoUsageReport}
    /\ usageTotals = [r \in Runs |-> ZeroUsage]
    /\ resultUsage = [r \in Runs |-> NoUsageSummary]
    /\ usageLog = <<>>

(***************************************************************************)
(* SpecCtx: a ContextManager with a budget of 0..MaxBudget and any         *)
(* strategy is handed a message sequence, and then its own output again.   *)
(***************************************************************************)
\* the messages tried: plain strings of 0..3 tokens and block messages, one
\* of them with a thinking block and a block of a type the estimator does
\* not know
MessagePool ==
    { [role |-> "user", kind |-> "string", text |-> "", content |-> <<>>],
      [role |-> "user", kind |-> "string", text |-> "hey", content |-> <<>>],
      [role |-> "assistant", kind |-> "string", text |-> "hello you", content |-> <<>>],
      [role |-> "assistant", kind |-> "blocks", text |-> "", content |->
          << [type |-> "thinking", thinking |-> "hm"],
             [type |-> "text", text |-> "ok"],
             [type |-> "image", source |-> "a picture"],
             [type |-> "tool_use", id |-> 1, name |-> "calc", input |-> "{}"] >>],
      [role |-> "user", kind |-> "blocks", text |-> "", content |->
          << [type |-> "tool_result", tool_use_id |-> 1,
              content |-> "{\"success\":true}", is_error |-> FALSE] >>] }

InitCtx ==
    /\ cmMaxTokens \in 0..MaxBudget
    /\ cmStrategy \in Strategies
    /\ cmCurrentTokens = 0
    /\ cmInput \in SeqsUpTo(MessagePool, MaxMessages)
    /\ cmOutputs = <<>>
    /\ ReviewIdle
    /\ TaskIdle
    /\ TodoIdle
    /\ TraceIdle
    /\ LoopIdle

\* manageContext(messages) on the input, then on each result in turn
CtxManage ==
    /\ Len(cmOutputs) < 2
    /\ IF cmOutputs = <<>> THEN TRUE ELSE ~cmOutputs[Len(cmOutputs)].threw
    /\ LET arg == IF cmOutputs = <<>> THEN cmInput
                  ELSE cmOutputs[Len(cmOutputs)].value
           out == manageContext(arg, cmMaxTokens, cmStrategy)
       IN /\ cmCurrentTokens' = out.currentTokens
          /\ cmOutputs' = Append(cmOutputs, [threw |-> out.threw, value |-> out.value,
                                             error |-> out.error])
    /\ UNCHANGED <<cmMaxTokens, cmStrategy, cmInput>>
    /\ UNCHANGED <<reviewVars, taskVars, todoVars, traceVars, loopVars>>

NextCtx == CtxManage

(***************************************************************************)
(* SpecTodo: the __todo__ tool is called with any sequence of actions.     *)
(***************************************************************************)
InitTodo ==
    /\ TodoIdle
    /\ CtxIdle
    /\ ReviewIdle
    /\ TaskIdle
    /\ TraceIdle
    /\ LoopIdle

\* a faulty variant of the set action: the new items are added to the list
TodoSetAppends(items) ==
    /\ IF items = <<>>
       THEN /\ todoResult' = TodoFailure("Items array is required for \"set\" action")
            /\ UNCHANGED <<todoItems, currentTaskId, todoNextId>>
       ELSE /\ todoNextId + Len(items) - 1 <= MaxTodoIds
            /\ LET r == setAll(items, todoNextId)
                   current == getCurrentTask(r.items, r.cur)
                   currentLabel == IF current = NoItem THEN "" ELSE Label(current)
               IN /\ todoItems' = todoItems \o r.items
                  /\ currentTaskId' = r.cur
                  /\ todoResult' =
                       [success |-> TRUE, error |-> "",
                        data |-> TodoData("Created " \o ToString(Len(r.items))
                                             \o " tasks. Starting: \"" \o currentLabel \o "\"",
                                          r.items, currentLabel, NoProgress)]
            /\ todoNextId' = todoNextId + Len(items)
    /\ todoCompletes' = IF items = <<>> THEN todoCompletes ELSE 0
    /\ todoLastAction' = "set"
    /\ todoInput' = items
    /\ UNCHANGED completeReturn
    /\ UNCHANGED <<reviewVars, taskVars, ctxVars, traceVars, loopVars>>

\* action "set" with a parsed item list; items = <<>> also stands for a
\* missing items parameter (!items || items.length === 0)
TodoSet(items) ==
    /\ IF items = <<>>
       THEN /\ todoResult' = TodoFailure("Items array is required for \"set\" action")
            /\ UNCHANGED <<todoItems, currentTaskId, todoNextId>>
       ELSE /\ todoNextId + Len(items) - 1 <= MaxTodoIds
            /\ LET r == setAll(items, todoNextId)
                   current == getCurrentTask(r.items, r.cur)
                   currentLabel == IF current = NoItem THEN "" ELSE Label(current)
               IN /\ todoItems' = r.items
                  /\ currentTaskId' = r.cur
                  /\ todoResult' =
                       [success |-> TRUE, error |-> "",
                        data |-> TodoData("Created " \o ToString(Len(r.items))
                                             \o " tasks. Starting: \"" \o currentLabel \o "\"",
                                          r.items, currentLabel, NoProgress)]
            /\ todoNextId' = todoNextId + Len(items)
    /\ todoCompletes' = IF items = <<>> THEN todoCompletes ELSE 0
    /\ todoLastAction' = "set"
    /\ todoInput' = items
    /\ UNCHANGED completeReturn
    /\ UNCHANGED <<reviewVars, taskVars, ctxVars, traceVars, loopVars>>

\* action "complete"
TodoComplete ==
    /\ LET r == completeCurrentAndNext(todoItems, currentTaskId)
           progress == getProgress(r.items)
           nextLabel == IF r.next = NoItem THEN "" ELSE Label(r.next)
       IN /\ todoItems' = r.items
          /\ currentTaskId' = r.cur
          /\ todoResult' =
               IF r.completed = NoItem /\ r.next = NoItem
               THEN [success |-> TRUE, error |-> "",
                     data |-> TodoData("No tasks to complete.", r.items, "", NoProgress)]
               ELSE [success |-> TRUE, error |-> "",
                     data |-> TodoData(
                        (IF r.completed # NoItem
                         THEN "Completed: \"" \o r.completed.content \o "\". " ELSE "")
                        \o (IF r.next # NoItem THEN "Next: \"" \o nextLabel \o "\". "
                            ELSE IF isAllCompleted(r.items) THEN "All tasks completed!" ELSE "")
                        \o "Progress: " \o ToString(progress.completed) \o "/"
                        \o ToString(progress.total),
                        r.items, nextLabel, progress)]
          /\ completeReturn' = [completed |-> r.completed, next |-> r.next]
          /\ UNCHANGED todoNextId
    /\ todoCompletes' = IF todoCompletes <= MaxTodoItems THEN todoCompletes + 1 ELSE todoCompletes
    /\ todoLastAction' = "complete"
    /\ UNCHANGED todoInput
    /\ UNCHANGED <<reviewVars, taskVars, ctxVars, traceVars, loopVars>>

\* action "list"
TodoList ==
    /\ LET current == getCurrentTask(todoItems, currentTaskId)
       IN /\ todoResult' =
               [success |-> TRUE, error |-> "",
                data |-> TodoData("", getAll(todoItems),
                                  IF current = NoItem THEN "" ELSE Label(current),
                                  getProgress(todoItems))]
          /\ UNCHANGED <<todoItems, currentTaskId, todoNextId>>
    /\ todoLastAction' = "list"
    /\ UNCHANGED <<completeReturn, todoInput, todoCompletes>>
    /\ UNCHANGED <<reviewVars, taskVars, ctxVars, traceVars, loopVars>>

\* any other action name
TodoUnknownAction ==
    /\ /\ todoResult' = TodoFailure("Unknown action: " \o "start")
       /\ UNCHANGED <<todoItems, currentTaskId, todoNextId>>
    /\ todoLastAction' = "start"
    /\ UNCHANGED <<completeReturn, todoInput, todoCompletes>>
    /\ UNCHANGED <<reviewVars, taskVars, ctxVars, traceVars, loopVars>>

NextTodo ==
    \/ \E items \in TodoInputs : TodoSet(items)
    \/ TodoComplete
    \/ TodoList
    \/ TodoUnknownAction

(***************************************************************************)
(* SpecManager: the public methods of a TodoManager are called in any       *)
(* order, with any id and, for setAll, any status given for an item.       *)
(***************************************************************************)
\* the lists handed to setAll: each entry with no status or one of the three
ManagerTodos ==
    SeqsUpTo({ [content |-> "A", activeForm |-> "", status |-> st] :
                  st \in {"", "pending", "in_progress", "completed"} }, MaxTodoItems)

InitManager ==
    /\ TodoIdle
    /\ CtxIdle
    /\ ReviewIdle
    /\ TaskIdle
    /\ TraceIdle
    /\ LoopIdle

ManagerAdd ==
    /\ Len(todoItems) < MaxTodoItems
    /\ todoNextId <= MaxTodoIds
    /\ todoItems' = add(todoItems, todoNextId, "A", "")
    /\ todoNextId' = todoNextId + 1
    /\ UNCHANGED <<currentTaskId, todoResult, completeReturn, todoLastAction, todoInput,
                   todoCompletes>>
    /\ UNCHANGED <<reviewVars, taskVars, ctxVars, traceVars, loopVars>>

ManagerSetAll(todos) ==
    /\ todoNextId + Len(todos) - 1 <= MaxTodoIds
    /\ todoItems' = setAll(todos, todoNextId).items
    /\ currentTaskId' = setAll(todos, todoNextId).cur
    /\ todoNextId' = todoNextId + Len(todos)
    /\ UNCHANGED <<todoResult, completeReturn, todoLastAction, todoInput, todoCompletes>>
    /\ UNCHANGED <<reviewVars, taskVars, ctxVars, traceVars, loopVars>>

ManagerStartTask(id) ==
    /\ todoItems' = startTask(todoItems, currentTaskId, id).items
    /\ currentTaskId' = startTask(todoItems, currentTaskId, id).cur
    /\ UNCHANGED <<todoNextId, todoResult, completeReturn, todoLastAction, todoInput,
                   todoCompletes>>
    /\ UNCHANGED <<reviewVars, taskVars, ctxVars, traceVars, loopVars>>

ManagerCompleteTask(id) ==
    /\ todoItems' = completeTask(todoItems, currentTaskId, id).items
    /\ currentTaskId' = completeTask(todoItems, currentTaskId, id).cur
    /\ UNCHANGED <<todoNextId, todoResult, completeReturn, todoLastAction, todoInput,
                   todoCompletes>>
    /\ UNCHANGED <<reviewVars, taskVars, ctxVars, traceVars, loopVars>>

ManagerCompleteCurrentAndNext ==
    /\ todoItems' = completeCurrentAndNext(todoItems, currentTaskId).items
    /\ currentTaskId' = completeCurrentAndNext(todoItems, currentTaskId).cur
    /\ completeReturn' =
          [completed |-> completeCurrentAndNext(todoItems, currentTaskId).completed,
           next |-> completeCurrentAndNext(todoItems, currentTaskId).next]
    /\ UNCHANGED <<todoNextId, todoResult, todoLastAction, todoInput, todoCompletes>>
    /\ UNCHANGED <<reviewVars, taskVars, ctxVars, traceVars, loopVars>>

NextManager ==
    \/ ManagerAdd
    \/ \E todos \in ManagerTodos : ManagerSetAll(todos)
    \/ \E id \in 1..MaxTodoIds : ManagerStartTask(id)
    \/ \E id \in 1..MaxTodoIds : ManagerCompleteTask(id)
    \/ ManagerCompleteCurrentAndNext

(***************************************************************************)
(* SpecTrace: a trace builder is driven through sub-agent spans and events. *)
(***************************************************************************)
InitTrace ==
    /\ spans = startAgent(<<>>, 0, "agent").spans
    /\ currentSpan = 1
    /\ trace = NoTrace
    /\ CtxIdle
    /\ ReviewIdle
    /\ TaskIdle
    /\ TodoIdle
    /\ LoopIdle

TraceRunning == ~trace.ended /\ currentSpan # 0

\* startSubAgent(agentName, inputMessage)
TraceStartSubAgent ==
    /\ TraceRunning
    /\ Len(spans) < MaxSpans
    /\ LET r == startAgent(spans, currentSpan, "sub")
       IN spans' = r.spans /\ currentSpan' = r.current
    /\ UNCHANGED trace
    /\ UNCHANGED <<reviewVars, taskVars, ctxVars, todoVars, loopVars>>

\* recordLLMCall(modelId, usage ...)
TraceRecordLLMCall ==
    /\ TraceRunning
    /\ TotalEvents(spans) < MaxEvents
    /\ \E call \in TraceLLMCalls :
          spans' = recordEvent(spans, currentSpan,
                      [type |-> "llm_call", modelId |-> call[1],
                       inputTokens |-> call[2], outputTokens |-> call[3],
                       cacheCreationTokens |-> call[4], cacheReadTokens |-> call[5],
                       cost |-> calculateCost(call[1], call[2], call[3], call[4], call[5])])
    /\ UNCHANGED <<currentSpan, trace>>
    /\ UNCHANGED <<reviewVars, taskVars, ctxVars, todoVars, loopVars>>

\* recordToolCall(toolName, input, output, durationMs)
TraceRecordToolCall ==
    /\ TraceRunning
    /\ TotalEvents(spans) < MaxEvents
    /\ spans' = recordEvent(spans, currentSpan, [type |-> "tool_call", toolName |-> "calc"])
    /\ UNCHANGED <<currentSpan, trace>>
    /\ UNCHANGED <<reviewVars, taskVars, ctxVars, todoVars, loopVars>>

\* endSubAgent(status, response)
TraceEndSubAgent ==
    /\ TraceRunning
    /\ spans[currentSpan].parent # 0
    /\ \E status \in {"complete", "interrupted", "error"} :
          LET r == endAgent(spans, currentSpan, status)
          IN spans' = r.spans /\ currentSpan' = r.current
    /\ UNCHANGED trace
    /\ UNCHANGED <<reviewVars, taskVars, ctxVars, todoVars, loopVars>>

\* endTrace(status, response): ends the root span and fills the totals
TraceEndTrace ==
    /\ TraceRunning
    /\ spans[currentSpan].parent = 0
    /\ \E status \in {"complete", "interrupted"} :
          spans' = [spans EXCEPT ![1].status = status]
    /\ currentSpan' = 0
    /\ trace' = [ended |-> TRUE, totals |-> spans[1].totals]
    /\ UNCHANGED <<reviewVars, taskVars, ctxVars, todoVars, loopVars>>

NextTrace ==
    \/ TraceStartSubAgent
    \/ TraceRecordLLMCall
    \/ TraceRecordToolCall
    \/ TraceEndSubAgent
    \/ TraceEndTrace

(***************************************************************************)
(* Spec: a Hive with the tool calc and the sub-agent worker runs one       *)
(* message; the model backend answers every llm.chat call with any         *)
(* response, the tool handlers with any outcome.                           *)
(***************************************************************************)
\* the context configurations of the root Hive
RootContextConfigs ==
    { [maxTokens |-> DefaultMaxContextTokens, strategy |-> "truncate_old"],
      [maxTokens |-> SmallBudget, strategy |-> "truncate_old"],
      [maxTokens |-> SmallBudget, strategy |-> "error"] }

\* state after new Hive(config): no run has started
Init ==
    /\ \E n \in 1..MaxIterations : maxIterations = [r \in Runs |-> n]
    /\ \E c \in RootContextConfigs :
          contextManager =
             [r \in Runs |->
                IF r = "root"
                THEN [maxTokens |-> c.maxTokens, strategy |-> c.strategy, currentTokens |-> 0]
                ELSE DefaultContextManager]
    /\ pc = [r \in Runs |-> "idle"]
    /\ history = [r \in Runs |-> <<>>]
    /\ sent = [r \in Runs |-> <<>>]
    /\ iteration = [r \in Runs |-> 0]
    /\ toolUseBlocks = [r \in Runs |-> <<>>]
    /\ toolResults = [r \in Runs |-> <<>>]
    /\ idx = [r \in Runs |-> 0]
    /\ toolCallLogs = [r \in Runs |-> <<>>]
    /\ agentResult = [r \in Runs |-> NoResult]
    /\ llmCalls = [r \in Runs |-> 0]
    /\ nextToolUseId = 1
    /\ cancel = "none"
    /\ oplog = <<>>
    /\ providedHistory = <<>>
    /\ historyGiven = TRUE
    /\ repository = <<>>
    /\ backend = DefaultBackend
    /\ RunsIdle
    /\ userMessage = "hello"
    /\ hiveConfig = FullHiveConfig
    /\ returned = [r \in Runs |-> FALSE]
    /\ sideEffects = <<>>
    /\ usageReports = {NoUsageReport}
    /\ usageTotals = [r \in Runs |-> ZeroUsage]
    /\ resultUsage = [r \in Runs |-> NoUsageSummary]
    /\ usageLog = <<>>
    /\ CtxIdle
    /\ ReviewIdle
    /\ TaskIdle
    /\ TodoIdle
    /\ TraceIdle

\* state after new Hive(config) with a backend that reports token usage
InitUsage ==
    /\ \E n \in 1..MaxIterations : maxIterations = [r \in Runs |-> n]
    /\ contextManager = [r \in Runs |-> DefaultContextManager]
    /\ pc = [r \in Runs |-> "idle"]
    /\ history = [r \in Runs |-> <<>>]
    /\ sent = [r \in Runs |-> <<>>]
    /\ iteration = [r \in Runs |-> 0]
    /\ toolUseBlocks = [r \in Runs |-> <<>>]
    /\ toolResults = [r \in Runs |-> <<>>]
    /\ idx = [r \in Runs |-> 0]
    /\ toolCallLogs = [r \in Runs |-> <<>>]
    /\ agentResult = [r \in Runs |-> NoResult]
    /\ llmCalls = [r \in Runs |-> 0]
    /\ nextToolUseId = 1
    /\ cancel = "none"
    /\ oplog = <<>>
    /\ providedHistory = <<>>
    /\ historyGiven = TRUE
    /\ repository = <<>>
    /\ backend = DefaultBackend
    /\ RunsIdle
    /\ userMessage = "hello"
    /\ hiveConfig = FullHiveConfig
    /\ returned = [r \in Runs |-> FALSE]
    /\ sideEffects = <<>>
    /\ usageReports = UsageReports
    /\ usageTotals = [r \in Runs |-> ZeroUsage]
    /\ resultUsage = [r \in Runs |-> NoUsageSummary]
    /\ usageLog = <<>>
    /\ CtxIdle
    /\ ReviewIdle
    /\ TaskIdle
    /\ TodoIdle
    /\ TraceIdle

\* what a caller resumes a conversation with: the history of an earlier run
\* and the next message. The earlier run ended with a question to the user,
\* was interrupted with requests pending, or had completed.
ResumeInputs ==
    { [history |-> <<>>, text |-> "hello"],
      [history |-> <<UserText("hi"),
                     AssistantBlocks(<<TextBlock("which?"),
                                       ToolUseBlock(101, ASK_USER_TOOL_NAME, "q")>>)>>,
       text |-> "yes"],
      [history |-> <<UserText("hi"),
                     AssistantBlocks(<<ToolUseBlock(101, "calc", "1+1"),
                                       ToolUseBlock(102, ASK_USER_TOOL_NAME, "q")>>)>>,
       text |-> "yes"],
      [history |-> <<UserText("hi"),
                     AssistantBlocks(<<ToolUseBlock(101, "calc", "1+1"),
                                       TextBlock("wait"),
                                       ToolUseBlock(102, TASK_TOOL_NAME, "worker")>>)>>,
       text |-> "hello"],
      [history |-> <<UserText("hi"), AssistantBlocks(<<TextBlock("done")>>)>>,
       text |-> "hello"] }

\* state after new Hive(config), with a caller about to resume a conversation
InitResume ==
    /\ \E n \in 1..MaxIterations : maxIterations = [r \in Runs |-> n]
    /\ contextManager =
          [r \in Runs |->
             IF r = "root"
             THEN [maxTokens |-> SmallBudget, strategy |-> "truncate_old", currentTokens |-> 0]
             ELSE DefaultContextManager]
    /\ pc = [r \in Runs |-> "idle"]
    /\ history = [r \in Runs |-> <<>>]
    /\ sent = [r \in Runs |-> <<>>]
    /\ iteration = [r \in Runs |-> 0]
    /\ toolUseBlocks = [r \in Runs |-> <<>>]
    /\ toolResults = [r \in Runs |-> <<>>]
    /\ idx = [r \in Runs |-> 0]
    /\ toolCallLogs = [r \in Runs |-> <<>>]
    /\ agentResult = [r \in Runs |-> NoResult]
    /\ llmCalls = [r \in Runs |-> 0]
    /\ nextToolUseId = 1
    /\ cancel = "none"
    /\ oplog = <<>>
    /\ \E given \in ResumeInputs :
          providedHistory = given.history /\ userMessage = given.text
    /\ historyGiven = TRUE
    /\ repository = <<>>
    /\ backend = DefaultBackend
    /\ RunsIdle
    /\ hiveConfig \in RootHiveConfigs
    /\ returned = [r \in Runs |-> FALSE]
    /\ sideEffects = <<>>
    /\ usageReports = {NoUsageReport}
    /\ usageTotals = [r \in Runs |-> ZeroUsage]
    /\ resultUsage = [r \in Runs |-> NoUsageSummary]
    /\ usageLog = <<>>
    /\ CtxIdle
    /\ ReviewIdle
    /\ TaskIdle
    /\ TodoIdle
    /\ TraceIdle

\* what a caller with a conversation id hands to Hive.run, and what the
\* repository holds for that id: nothing stored and no history given, a
\* stored conversation that waits for the user's answer, a stored finished
\* conversation, and an empty history given over a stored conversation
StoredWaiting ==
    <<UserText("hi"),
      AssistantBlocks(<<TextBlock("which?"), ToolUseBlock(101, ASK_USER_TOOL_NAME, "q")>>)>>

StoredFinished == <<UserText("hi"), AssistantBlocks(<<TextBlock("done")>>)>>

RepositoryInputs ==
    { [given |-> FALSE, history |-> <<>>, stored |-> <<>>, text |-> "hello"],
      [given |-> FALSE, history |-> <<>>, stored |-> StoredWaiting, text |-> "yes"],
      [given |-> FALSE, history |-> <<>>, stored |-> StoredFinished, text |-> "hello"],
      [given |-> TRUE, history |-> <<>>, stored |-> StoredFinished, text |-> "hello"] }

\* state after new Hive(config) with a MemoryRepository that may hold an
\* earlier conversation
InitRepository ==
    /\ \E n \in 1..MaxIterations : maxIterations = [r \in Runs |-> n]
    /\ contextManager =
          [r \in Runs |->
             IF r = "root"
             THEN [maxTokens |-> SmallBudget, strategy |-> "truncate_old", currentTokens |-> 0]
             ELSE DefaultContextManager]
    /\ pc = [r \in Runs |-> "idle"]
    /\ history = [r \in Runs |-> <<>>]
    /\ sent = [r \in Runs |-> <<>>]
    /\ iteration = [r \in Runs |-> 0]
    /\ toolUseBlocks = [r \in Runs |-> <<>>]
    /\ toolResults = [r \in Runs |-> <<>>]
    /\ idx = [r \in Runs |-> 0]
    /\ toolCallLogs = [r \in Runs |-> <<>>]
    /\ agentResult = [r \in Runs |-> NoResult]
    /\ llmCalls = [r \in Runs |-> 0]
    /\ nextToolUseId = 1
    /\ cancel = "none"
    /\ oplog = <<>>
    /\ \E input \in RepositoryInputs :
          /\ historyGiven = input.given
          /\ providedHistory = input.history
          /\ repository = input.stored
          /\ userMessage = input.text
    /\ backend = DefaultBackend
    /\ RunsIdle
    /\ hiveConfig \in RootHiveConfigs
    /\ returned = [r \in Runs |-> FALSE]
    /\ sideEffects = <<>>
    /\ usageReports = {NoUsageReport}
    /\ usageTotals = [r \in Runs |-> ZeroUsage]
    /\ resultUsage = [r \in Runs |-> NoUsageSummary]
    /\ usageLog = <<>>
    /\ CtxIdle
    /\ ReviewIdle
    /\ TaskIdle
    /\ TodoIdle
    /\ TraceIdle

\* state after new Hive(config) with a repository that holds nothing for
\* the conversation id; the caller drives the conversation through run()
\* alone and hands no history in
InitConversation ==
    /\ \E n \in 1..MaxIterations : maxIterations = [r \in Runs |-> n]
    /\ contextManager =
          [r \in Runs |->
             IF r = "root"
             THEN [maxTokens |-> SmallBudget, strategy |-> "truncate_old", currentTokens |-> 0]
             ELSE DefaultContextManager]
    /\ pc = [r \in Runs |-> "idle"]
    /\ history = [r \in Runs |-> <<>>]
    /\ sent = [r \in Runs |-> <<>>]
    /\ iteration = [r \in Runs |-> 0]
    /\ toolUseBlocks = [r \in Runs |-> <<>>]
    /\ toolResults = [r \in Runs |-> <<>>]
    /\ idx = [r \in Runs |-> 0]
    /\ toolCallLogs = [r \in Runs |-> <<>>]
    /\ agentResult = [r \in Runs |-> NoResult]
    /\ llmCalls = [r \in Runs |-> 0]
    /\ nextToolUseId = 1
    /\ cancel = "none"
    /\ oplog = <<>>
    /\ historyGiven = FALSE
    /\ providedHistory = <<>>
    /\ repository = <<>>
    /\ userMessage = "hello"
    /\ backend = DefaultBackend
    /\ RunsIdle
    /\ hiveConfig = FullHiveConfig
    /\ returned = [r \in Runs |-> FALSE]
    /\ sideEffects = <<>>
    /\ usageReports = {NoUsageReport}
    /\ usageTotals = [r \in Runs |-> ZeroUsage]
    /\ resultUsage = [r \in Runs |-> NoUsageSummary]
    /\ usageLog = <<>>
    /\ CtxIdle
    /\ ReviewIdle
    /\ TaskIdle
    /\ TodoIdle
    /\ TraceIdle

\* the run r leaves executeLoop with res: returned, or thrown for a fault
Leave(r, res) ==
    /\ agentResult' = [agentResult EXCEPT ![r] = res]
    /\ pc' = [pc EXCEPT ![r] = "done"]
    /\ toolUseBlocks' = [toolUseBlocks EXCEPT ![r] = <<>>]
    /\ toolResults' = [toolResults EXCEPT ![r] = <<>>]
    /\ idx' = [idx EXCEPT ![r] = 0]

\* Hive.run(message, {history}) of the root Hive up to the call of
\* executeLoop: the messages are made from the history handed in
Run ==
    /\ pc["root"] = "idle"
    /\ pc' = [pc EXCEPT !["root"] = "top"]
    /\ LET loaded == loadHistory(historyGiven, providedHistory, hiveConfig, repository)
       IN history' = [history EXCEPT !["root"] = runMessages(loaded, userMessage).messages]
    /\ providedHistory' = runMessages(providedHistory, userMessage).history
    /\ repository' = IF ~historyGiven /\ hiveConfig.repository
                     THEN runMessages(repository, userMessage).history
                     ELSE repository
    /\ rootRuns' = rootRuns + 1
    /\ toolContext' = [toolContext EXCEPT !["root"] = newToolContext(contextManager["root"])]
    /\ todoManagers' = newTodoManager(todoManagers).managers
    /\ managerOf' = [managerOf EXCEPT !["root"] = newTodoManager(todoManagers).id]
    /\ contextOf' = [contextOf EXCEPT !["root"] = 1]
    /\ UNCHANGED <<maxIterations, contextManager, sent, iteration, toolUseBlocks,
                   toolResults, idx, toolCallLogs, agentResult, llmCalls, nextToolUseId,
                   cancel, oplog, userMessage, hiveConfig, returned, sideEffects,
                   historyGiven, backend, contexts, storeLog>>
    /\ UNCHANGED <<reviewVars, taskVars, ctxVars, todoVars, traceVars>>
    /\ UNCHANGED usageVars

\* the end of Hive.run of the run r, once its executeLoop has returned a
\* result: save the history, end the trace, record the run, return
Finish(r) ==
    /\ pc[r] = "done"
    /\ agentResult[r].status # "fault"
    /\ ~returned[r]
    /\ returned' = [returned EXCEPT ![r] = TRUE]
    /\ LET cfg == IF r = "root" THEN hiveConfig ELSE SubHiveConfig(hiveConfig)
           nested == r # "root" /\ hiveConfig.trace
           calls == finishRun(cfg, nested)
       IN /\ sideEffects' = sideEffects \o [i \in 1..Len(calls) |-> [run |-> r, kind |-> calls[i]]]
          /\ repository' = IF cfg.repository THEN saveHistory(repository, history[r])
                           ELSE repository
    /\ UNCHANGED <<maxIterations, contextManager, pc, history, sent, iteration,
                   toolUseBlocks, toolResults, idx, toolCallLogs, agentResult, llmCalls,
                   nextToolUseId, cancel, oplog, providedHistory, userMessage, hiveConfig,
                   historyGiven, backend>>
    /\ UNCHANGED runVars
    /\ UNCHANGED <<reviewVars, taskVars, ctxVars, todoVars, traceVars>>
    /\ UNCHANGED usageVars

\* the caller aborts the signal, or shouldContinue starts to answer false
Cancel ==
    /\ cancel = "none"
    /\ pc["root"] \notin {"idle", "done"}
    /\ \E how \in {"signal", "predicate"} : cancel' = how
    /\ UNCHANGED <<maxIterations, contextManager, pc, history, sent, iteration,
                   toolUseBlocks, toolResults, idx, toolCallLogs, agentResult, llmCalls,
                   nextToolUseId, oplog>>
    /\ UNCHANGED <<reviewVars, taskVars, ctxVars, todoVars, traceVars, hiveVars>>
    /\ UNCHANGED usageVars

\* the head of the for loop: the loop test, manageContext and the call of llm.chat
IterationStart(r) ==
    /\ pc[r] = "top"
    /\ IF loopTest(iteration[r], maxIterations[r])
       THEN LET m == manageContext(history[r], contextManager[r].maxTokens,
                                   contextManager[r].strategy)
            IN /\ contextManager' = [contextManager EXCEPT ![r].currentTokens = m.currentTokens]
               /\ IF m.threw
                  THEN /\ Leave(r, FaultResult(m.error))
                       /\ UNCHANGED <<sent, llmCalls>>
                  ELSE /\ sent' = [sent EXCEPT ![r] = m.value]
                       /\ llmCalls' = [llmCalls EXCEPT ![r] = @ + 1]
                       /\ pc' = [pc EXCEPT ![r] = "llm"]
                       /\ UNCHANGED <<agentResult, toolUseBlocks, toolResults, idx>>
       ELSE /\ Leave(r, FaultResult(MaxIterationsError(maxIterations[r])))
            /\ UNCHANGED <<contextManager, sent, llmCalls>>
    /\ UNCHANGED <<maxIterations, history, iteration, toolCallLogs, nextToolUseId,
                   cancel, oplog>>
    /\ UNCHANGED <<reviewVars, taskVars, ctxVars, todoVars, traceVars, hiveVars>>
    /\ UNCHANGED usageVars

\* the batch is finished: the tool results become one user message and the
\* loop counter moves on
FinishBatch(r, msgs, results) ==
    /\ history' = [history EXCEPT ![r] = Append(msgs, UserBlocks(results))]
    /\ iteration' = [iteration EXCEPT ![r] = @ + 1]
    /\ pc' = [pc EXCEPT ![r] = "top"]
    /\ toolUseBlocks' = [toolUseBlocks EXCEPT ![r] = <<>>]
    /\ toolResults' = [toolResults EXCEPT ![r] = <<>>]
    /\ idx' = [idx EXCEPT ![r] = 0]

\* llm.chat throws: the fault leaves executeLoop
LLMFails(r) ==
    /\ pc[r] = "llm"
    /\ Leave(r, FaultResult("LLM request failed"))
    /\ UNCHANGED <<maxIterations, contextManager, history, sent, iteration,
                   toolCallLogs, llmCalls, nextToolUseId, cancel, oplog>>
    /\ UNCHANGED <<reviewVars, taskVars, ctxVars, todoVars, traceVars, hiveVars>>
    /\ UNCHANGED usageVars

\* llm.chat answers with a stop reason other than tool_use
LLMEnds(r) ==
    /\ pc[r] = "llm"
    /\ \E content \in EndContents :
          /\ history' = [history EXCEPT ![r] = Append(@, AssistantBlocks(content))]
          /\ Leave(r, CompleteResult(extractText(content)))
    /\ UNCHANGED <<maxIterations, contextManager, sent, iteration, toolCallLogs,
                   llmCalls, nextToolUseId, cancel, oplog>>
    /\ UNCHANGED <<reviewVars, taskVars, ctxVars, todoVars, traceVars, hiveVars>>
    /\ \E report \in usageReports :
          /\ usageTotals' = [usageTotals EXCEPT ![r] = addUsage(@, report)]
          /\ usageLog' = Append(usageLog, [run |-> r, report |-> report])
          /\ resultUsage' = [resultUsage EXCEPT
                                ![r] = UsageSummary(addUsage(usageTotals[r], report))]
    /\ UNCHANGED usageReports

\* llm.chat answers with stop reason tool_use and n tool_use blocks
LLMRequestsTools(r) ==
    /\ pc[r] = "llm"
    /\ \E n \in 0..(backend.maxToolUses + 1 - nextToolUseId) :
       \E kinds \in [1..n -> backend.kinds] :
          LET content == [i \in 1..n |-> Request(kinds[i], nextToolUseId + i - 1)]
              withAssistant == Append(history[r], AssistantBlocks(content))
              blocks == SelectSeq(content, IsToolUse)
          IN /\ nextToolUseId' = nextToolUseId + n
             /\ IF blocks = <<>>
                THEN FinishBatch(r, withAssistant, <<>>)
                ELSE /\ history' = [history EXCEPT ![r] = withAssistant]
                     /\ toolUseBlocks' = [toolUseBlocks EXCEPT ![r] = blocks]
                     /\ toolResults' = [toolResults EXCEPT ![r] = <<>>]
                     /\ idx' = [idx EXCEPT ![r] = 1]
                     /\ pc' = [pc EXCEPT ![r] = "tools"]
                     /\ UNCHANGED iteration
    /\ UNCHANGED <<maxIterations, contextManager, sent, toolCallLogs, agentResult,
                   llmCalls, cancel, oplog>>
    /\ UNCHANGED <<reviewVars, taskVars, ctxVars, todoVars, traceVars, hiveVars>>
    /\ \E report \in usageReports :
          /\ usageTotals' = [usageTotals EXCEPT ![r] = addUsage(@, report)]
          /\ usageLog' = Append(usageLog, [run |-> r, report |-> report])
    /\ UNCHANGED <<usageReports, resultUsage>>

\* variant of CurrentToolUse that walks the batch from its end
CurrentToolUseFromEnd(r) == toolUseBlocks[r][Len(toolUseBlocks[r]) - idx[r] + 1]

\* the request the loop over toolUseBlocks is at
CurrentToolUse(r) == toolUseBlocks[r][idx[r]]

\* after a request has been answered: on to the next one, or the batch is finished
Advance(r, results) ==
    IF idx[r] < Len(toolUseBlocks[r])
    THEN /\ toolResults' = [toolResults EXCEPT ![r] = results]
         /\ idx' = [idx EXCEPT ![r] = @ + 1]
         /\ pc' = [pc EXCEPT ![r] = "tools"]
         /\ UNCHANGED <<history, iteration, toolUseBlocks>>
    ELSE FinishBatch(r, history[r], results)

\* variant of AskUser that appends the results collected so far before it
\* returns
AskUserFlushesResults(r) ==
    /\ pc[r] = "tools"
    /\ CurrentToolUse(r).name = ASK_USER_TOOL_NAME
    /\ Leave(r, NeedsInputResult(pendingQuestion(toolUseBlocks[r], idx[r])))
    /\ history' = [history EXCEPT ![r] = Append(@, UserBlocks(toolResults[r]))]
    /\ UNCHANGED <<maxIterations, contextManager, sent, iteration,
                   toolCallLogs, llmCalls, nextToolUseId, cancel, oplog>>
    /\ UNCHANGED <<reviewVars, taskVars, ctxVars, todoVars, traceVars, hiveVars>>
    /\ resultUsage' = [resultUsage EXCEPT ![r] = UsageSummary(usageTotals[r])]
    /\ UNCHANGED <<usageReports, usageTotals, usageLog>>

\* the request names __ask_user__: executeLoop returns needs_input
AskUser(r) ==
    /\ pc[r] = "tools"
    /\ CurrentToolUse(r).name = ASK_USER_TOOL_NAME
    /\ Leave(r, NeedsInputResult(pendingQuestion(toolUseBlocks[r], idx[r])))
    /\ UNCHANGED <<maxIterations, contextManager, history, sent, iteration,
                   toolCallLogs, llmCalls, nextToolUseId, cancel, oplog>>
    /\ UNCHANGED <<reviewVars, taskVars, ctxVars, todoVars, traceVars, hiveVars>>
    /\ resultUsage' = [resultUsage EXCEPT ![r] = UsageSummary(usageTotals[r])]
    /\ UNCHANGED <<usageReports, usageTotals, usageLog>>

\* a faulty variant: an unknown tool name is raised as a fault
UnknownToolRaises(r) ==
    /\ pc[r] = "tools"
    /\ CurrentToolUse(r).name # ASK_USER_TOOL_NAME
    /\ CurrentToolUse(r).name \notin getRunTools(r)
    /\ Leave(r, FaultResult("Unknown tool: " \o CurrentToolUse(r).name))
    /\ UNCHANGED <<maxIterations, contextManager, history, sent, iteration,
                   toolCallLogs, llmCalls, nextToolUseId, cancel, oplog>>
    /\ UNCHANGED <<reviewVars, taskVars, ctxVars, todoVars, traceVars, hiveVars>>
    /\ UNCHANGED usageVars

\* a faulty variant: an unknown tool name is skipped without a tool_result
UnknownToolSkipped(r) ==
    /\ pc[r] = "tools"
    /\ CurrentToolUse(r).name # ASK_USER_TOOL_NAME
    /\ CurrentToolUse(r).name \notin getRunTools(r)
    /\ Advance(r, toolResults[r])
    /\ UNCHANGED <<maxIterations, contextManager, sent, toolCallLogs, agentResult,
                   llmCalls, nextToolUseId, cancel, oplog>>
    /\ UNCHANGED <<reviewVars, taskVars, ctxVars, todoVars, traceVars, hiveVars>>
    /\ UNCHANGED usageVars

\* the request names no tool of the run
UnknownTool(r) ==
    /\ pc[r] = "tools"
    /\ CurrentToolUse(r).name # ASK_USER_TOOL_NAME
    /\ CurrentToolUse(r).name \notin getRunTools(r)
    /\ Advance(r, Append(toolResults[r],
                         ToolResultBlock(CurrentToolUse(r).id,
                            JSONstringify(ToolResult(FALSE,
                               "Unknown tool: " \o CurrentToolUse(r).name, "")),
                            TRUE)))
    /\ UNCHANGED <<maxIterations, contextManager, sent, toolCallLogs, agentResult,
                   llmCalls, nextToolUseId, cancel, oplog>>
    /\ UNCHANGED <<reviewVars, taskVars, ctxVars, todoVars, traceVars, hiveVars>>
    /\ UNCHANGED usageVars

\* a faulty variant of Dispatched: only successful invocations are logged
DispatchedLogsSuccess(r, done) ==
    IF done.threw
    THEN /\ Leave(r, FaultResult("tool fault"))
         /\ UNCHANGED <<history, iteration, toolCallLogs>>
    ELSE /\ toolCallLogs' = [toolCallLogs EXCEPT ![r] =
               IF done.result.success
               THEN Append(@, [name |-> CurrentToolUse(r).name,
                               input |-> CurrentToolUse(r).input,
                               output |-> done.result,
                               durationMs |-> done.durationMs])
               ELSE @]
         /\ Advance(r, Append(toolResults[r],
                              ToolResultBlock(CurrentToolUse(r).id,
                                              JSONstringify(done.result),
                                              ~done.result.success)))
         /\ UNCHANGED agentResult

\* what executeLoop does with the answer of executeTool: a log entry and a
\* tool_result block; a fault of executeTool would leave the loop
Dispatched(r, done) ==
    IF done.threw
    THEN /\ Leave(r, FaultResult("tool fault"))
         /\ UNCHANGED <<history, iteration, toolCallLogs>>
    ELSE /\ toolCallLogs' = [toolCallLogs EXCEPT ![r] =
               Append(@, [name |-> CurrentToolUse(r).name,
                          input |-> CurrentToolUse(r).input,
                          output |-> done.result,
                          durationMs |-> done.durationMs])]
         /\ Advance(r, Append(toolResults[r],
                              ToolResultBlock(CurrentToolUse(r).id,
                                              JSONstringify(done.result),
                                              ~done.result.success)))
         /\ UNCHANGED agentResult

\* a registered tool other than __task__ is executed
ExecuteTool(r) ==
    /\ pc[r] = "tools"
    /\ CurrentToolUse(r).name # ASK_USER_TOOL_NAME
    /\ CurrentToolUse(r).name \in getRunTools(r) \ {TASK_TOOL_NAME}
    /\ \E outcome \in ToolOutcomes :
          /\ Dispatched(r, executeTool(outcome))
          /\ oplog' = Append(oplog, [run |-> r, id |-> CurrentToolUse(r).id,
                                     outcome |-> outcome])
    /\ UNCHANGED <<maxIterations, contextManager, sent, llmCalls, nextToolUseId, cancel>>
    /\ UNCHANGED <<reviewVars, taskVars, ctxVars, todoVars, traceVars, hiveVars>>
    /\ UNCHANGED usageVars

\* __task__ is executed for an agent that is not configured
TaskUnknownAgent(r) ==
    /\ pc[r] = "tools"
    /\ CurrentToolUse(r).name = TASK_TOOL_NAME
    /\ TASK_TOOL_NAME \in getRunTools(r)
    /\ CurrentToolUse(r).input \notin Agents
    /\ LET outcome ==
              [kind |-> "return",
               result |-> ToolResult(FALSE, "Unknown agent: " \o CurrentToolUse(r).input, ""),
               elapsed |-> 1]
       IN /\ Dispatched(r, executeTool(outcome))
          /\ oplog' = Append(oplog, [run |-> r, id |-> CurrentToolUse(r).id,
                                     outcome |-> outcome])
    /\ UNCHANGED <<maxIterations, contextManager, sent, llmCalls, nextToolUseId, cancel>>
    /\ UNCHANGED <<reviewVars, taskVars, ctxVars, todoVars, traceVars, hiveVars>>
    /\ UNCHANGED usageVars

\* variant of SpawnSubAgent that starts the sub-agent's run and does not
\* wait for it
SpawnSubAgentDetached(r) ==
    /\ pc[r] = "tools"
    /\ CurrentToolUse(r).name = TASK_TOOL_NAME
    /\ TASK_TOOL_NAME \in getRunTools(r)
    /\ CurrentToolUse(r).input \in Agents
    /\ pc["sub"] = "idle"
    /\ pc' = [pc EXCEPT !["sub"] = "top"]
    /\ history' = [history EXCEPT !["sub"] = <<UserText("do it")>>]
    /\ contextManager' = [contextManager EXCEPT !["sub"] = DefaultContextManager]
    /\ oplog' = Append(oplog, [run |-> r, id |-> CurrentToolUse(r).id,
                               outcome |-> [kind |-> "spawn"]])
    /\ todoManagers' = newTodoManager(todoManagers).managers
    /\ managerOf' = [managerOf EXCEPT !["sub"] = newTodoManager(todoManagers).id]
    /\ contexts' = subRunContext(contexts, contextOf[r]).contexts
    /\ contextOf' = [contextOf EXCEPT !["sub"] = subRunContext(contexts, contextOf[r]).id]
    /\ UNCHANGED <<maxIterations, sent, iteration, toolUseBlocks, toolResults, idx,
                   toolCallLogs, agentResult, llmCalls, nextToolUseId, cancel>>
    /\ toolContext' = [toolContext EXCEPT !["sub"] = newToolContext(DefaultContextManager)]
    /\ UNCHANGED <<reviewVars, taskVars, ctxVars, todoVars, traceVars, callVars, rootRuns, storeLog>>
    /\ UNCHANGED usageVars

\* __task__ is executed: a new Hive is made for the agent and its run
\* started with the prompt; the parent waits in executeTool
SpawnSubAgent(r) ==
    /\ pc[r] = "tools"
    /\ CurrentToolUse(r).name = TASK_TOOL_NAME
    /\ TASK_TOOL_NAME \in getRunTools(r)
    /\ CurrentToolUse(r).input \in Agents
    /\ pc["sub"] = "idle"
    /\ pc' = [pc EXCEPT ![r] = "exec", !["sub"] = "top"]
    /\ history' = [history EXCEPT !["sub"] = <<UserText("do it")>>]
    /\ contextManager' = [contextManager EXCEPT !["sub"] = DefaultContextManager]
    /\ oplog' = Append(oplog, [run |-> r, id |-> CurrentToolUse(r).id,
                               outcome |-> [kind |-> "spawn"]])
    /\ todoManagers' = newTodoManager(todoManagers).managers
    /\ managerOf' = [managerOf EXCEPT !["sub"] = newTodoManager(todoManagers).id]
    /\ contexts' = subRunContext(contexts, contextOf[r]).contexts
    /\ contextOf' = [contextOf EXCEPT !["sub"] = subRunContext(contexts, contextOf[r]).id]
    /\ UNCHANGED <<maxIterations, sent, iteration, toolUseBlocks, toolResults, idx,
                   toolCallLogs, agentResult, llmCalls, nextToolUseId, cancel>>
    /\ toolContext' = [toolContext EXCEPT !["sub"] = newToolContext(DefaultContextManager)]
    /\ UNCHANGED <<reviewVars, taskVars, ctxVars, todoVars, traceVars, callVars, rootRuns, storeLog>>
    /\ UNCHANGED usageVars

\* subHive.run has settled: __task__ returns and the sub-agent's Hive is dropped
SubAgentReturns(r) ==
    /\ pc[r] = "exec"
    /\ pc["sub"] = "done"
    /\ agentResult["sub"].status = "fault" \/ returned["sub"]
    /\ returned' = [returned EXCEPT !["sub"] = FALSE]
    /\ LET done == executeTool(taskOutcome(agentResult["sub"]))
           results == Append(toolResults[r],
                             ToolResultBlock(CurrentToolUse(r).id,
                                             JSONstringify(done.result),
                                             ~done.result.success))
           last == idx[r] = Len(toolUseBlocks[r])
       IN /\ toolCallLogs' = [toolCallLogs EXCEPT
                ![r] = Append(@, [name |-> CurrentToolUse(r).name,
                                  input |-> CurrentToolUse(r).input,
                                  output |-> done.result,
                                  durationMs |-> done.durationMs]),
                !["sub"] = <<>>]
          /\ history' = [history EXCEPT
                ![r] = IF last THEN Append(@, UserBlocks(results)) ELSE @,
                !["sub"] = <<>>]
          /\ iteration' = [iteration EXCEPT ![r] = IF last THEN @ + 1 ELSE @, !["sub"] = 0]
          /\ pc' = [pc EXCEPT ![r] = IF last THEN "top" ELSE "tools", !["sub"] = "idle"]
          /\ toolUseBlocks' = [toolUseBlocks EXCEPT ![r] = IF last THEN <<>> ELSE @]
          /\ toolResults' = [toolResults EXCEPT ![r] = IF last THEN <<>> ELSE results]
          /\ idx' = [idx EXCEPT ![r] = IF last THEN 0 ELSE @ + 1]
    /\ agentResult' = [agentResult EXCEPT !["sub"] = NoResult]
    /\ sent' = [sent EXCEPT !["sub"] = <<>>]
    /\ llmCalls' = [llmCalls EXCEPT !["sub"] = 0]
    /\ UNCHANGED <<maxIterations, contextManager, nextToolUseId, cancel, oplog,
                   providedHistory, userMessage, hiveConfig, sideEffects,
                   historyGiven, repository, backend>>
    /\ managerOf' = [managerOf EXCEPT !["sub"] = 0]
    /\ contextOf' = [contextOf EXCEPT !["sub"] = 0]
    /\ toolContext' = [toolContext EXCEPT !["sub"] = NoToolContext]
    /\ UNCHANGED <<rootRuns, todoManagers, contexts, storeLog>>
    /\ UNCHANGED <<reviewVars, taskVars, ctxVars, todoVars, traceVars>>
    /\ usageTotals' = [usageTotals EXCEPT !["sub"] = ZeroUsage]
    /\ resultUsage' = [resultUsage EXCEPT !["sub"] = NoUsageSummary]
    /\ UNCHANGED <<usageReports, usageLog>>

\* one step of the run r: of its executeLoop, its backend or its tools
Step(r) ==
    \/ IterationStart(r)
    \/ LLMFails(r)
    \/ LLMEnds(r)
    \/ LLMRequestsTools(r)
    \/ AskUser(r)
    \/ UnknownTool(r)
    \/ ExecuteTool(r)
    \/ TaskUnknownAgent(r)
    \/ SpawnSubAgent(r)
    \/ SubAgentReturns(r)
    \/ Finish(r)

Next ==
    \/ Run
    \/ Cancel
    \/ \E r \in Runs : Step(r)

\* state after new Hive(config) of a Hive with an agent, a backend that
\* uses the __todo__ tool, and a caller who runs the Hive more than once
InitTodoRuns ==
    /\ maxIterations = [r \in Runs |-> MaxIterations]
    /\ contextManager = [r \in Runs |-> DefaultContextManager]
    /\ pc = [r \in Runs |-> "idle"]
    /\ history = [r \in Runs |-> <<>>]
    /\ sent = [r \in Runs |-> <<>>]
    /\ iteration = [r \in Runs |-> 0]
    /\ toolUseBlocks = [r \in Runs |-> <<>>]
    /\ toolResults = [r \in Runs |-> <<>>]
    /\ idx = [r \in Runs |-> 0]
    /\ toolCallLogs = [r \in Runs |-> <<>>]
    /\ agentResult = [r \in Runs |-> NoResult]
    /\ llmCalls = [r \in Runs |-> 0]
    /\ nextToolUseId = 1
    /\ cancel = "none"
    /\ oplog = <<>>
    /\ providedHistory = <<>>
    /\ historyGiven = FALSE
    /\ repository = <<>>
    /\ backend = TodoRunBackend
    /\ RunsIdle
    /\ userMessage = "hello"
    /\ hiveConfig = NoHiveConfig
    /\ returned = [r \in Runs |-> FALSE]
    /\ sideEffects = <<>>
    /\ usageReports = {NoUsageReport}
    /\ usageTotals = [r \in Runs |-> ZeroUsage]
    /\ resultUsage = [r \in Runs |-> NoUsageSummary]
    /\ usageLog = <<>>
    /\ CtxIdle
    /\ ReviewIdle
    /\ TaskIdle
    /\ TodoIdle
    /\ TraceIdle

\* Hive.run is called again on the root Hive after its earlier run has
\* settled: the locals of Hive.run and executeLoop are new, the Hive is the
\* same
RunAgain ==
    /\ pc["root"] = "done"
    /\ returned["root"] \/ agentResult["root"].status = "fault"
    /\ rootRuns < MaxRootRuns
    /\ pc' = [pc EXCEPT !["root"] = "top"]
    /\ LET loaded == loadHistory(historyGiven, providedHistory, hiveConfig, repository)
       IN history' = [history EXCEPT !["root"] = runMessages(loaded, userMessage).messages]
    /\ repository' = IF ~historyGiven /\ hiveConfig.repository
                     THEN runMessages(repository, userMessage).history
                     ELSE repository
    /\ iteration' = [iteration EXCEPT !["root"] = 0]
    /\ toolCallLogs' = [toolCallLogs EXCEPT !["root"] = <<>>]
    /\ agentResult' = [agentResult EXCEPT !["root"] = NoResult]
    /\ returned' = [returned EXCEPT !["root"] = FALSE]
    /\ sent' = [sent EXCEPT !["root"] = <<>>]
    /\ llmCalls' = [llmCalls EXCEPT !["root"] = 0]
    /\ usageTotals' = [usageTotals EXCEPT !["root"] = ZeroUsage]
    /\ resultUsage' = [resultUsage EXCEPT !["root"] = NoUsageSummary]
    /\ rootRuns' = rootRuns + 1
    /\ toolContext' = [toolContext EXCEPT !["root"] = newToolContext(contextManager["root"])]
    /\ todoManagers' = newTodoManager(todoManagers).managers
    /\ managerOf' = [managerOf EXCEPT !["root"] = newTodoManager(todoManagers).id]
    /\ UNCHANGED <<maxIterations, contextManager, toolUseBlocks, toolResults, idx,
                   nextToolUseId, cancel, oplog, providedHistory, userMessage, hiveConfig,
                   sideEffects, historyGiven, backend, contexts, contextOf,
                   storeLog, usageReports, usageLog>>
    /\ UNCHANGED <<reviewVars, taskVars, ctxVars, todoVars, traceVars>>

\* the __todo__ tool of the run r is executed on the run's TodoManager:
\* action "list", or action "set" with one item
ExecuteTodoTool(r) ==
    /\ pc[r] = "tools"
    /\ CurrentToolUse(r).name = TODO_TOOL_NAME
    /\ TODO_TOOL_NAME \in getRunTools(r)
    /\ LET m == managerOf[r]
           input == CurrentToolUse(r).input
           set == setAll(<<[content |-> input, activeForm |-> "", status |-> ""]>>,
                         CurrentToolUse(r).id)
           result ==
              IF input = "list"
              THEN ToolResult(TRUE, "", "\"" \o TodoText(getAll(todoManagers[m].items)) \o "\"")
              ELSE ToolResult(TRUE, "", "\"Created 1 tasks. Starting: " \o input \o "\"")
           outcome == [kind |-> "return", result |-> result, elapsed |-> 1]
       IN /\ todoManagers' =
               IF input = "list" THEN todoManagers
               ELSE [todoManagers EXCEPT ![m] = [items |-> set.items, cur |-> set.cur]]
          /\ Dispatched(r, executeTool(outcome))
          /\ oplog' = Append(oplog, [run |-> r, id |-> CurrentToolUse(r).id,
                                     outcome |-> outcome])
    /\ UNCHANGED <<maxIterations, contextManager, sent, llmCalls, nextToolUseId, cancel>>
    /\ UNCHANGED <<reviewVars, taskVars, ctxVars, todoVars, traceVars, callVars>>
    /\ UNCHANGED <<rootRuns, managerOf, contexts, contextOf, storeLog, toolContext>>
    /\ UNCHANGED usageVars

\* one step of the run r in SpecTodoRuns
TodoRunStep(r) ==
    \/ IterationStart(r)
    \/ LLMEnds(r)
    \/ LLMRequestsTools(r)
    \/ ExecuteTodoTool(r)
    \/ SpawnSubAgent(r)
    \/ SubAgentReturns(r)
    \/ Finish(r)

NextTodoRuns ==
    \/ Run
    \/ RunAgain
    \/ \E r \in Runs : TodoRunStep(r)

\* state after new Hive(config) of a Hive with an agent, run with a Context
\* and a backend that uses the context tools
InitStore ==
    /\ maxIterations = [r \in Runs |-> MaxIterations]
    /\ contextManager = [r \in Runs |-> DefaultContextManager]
    /\ pc = [r \in Runs |-> "idle"]
    /\ history = [r \in Runs |-> <<>>]
    /\ sent = [r \in Runs |-> <<>>]
    /\ iteration = [r \in Runs |-> 0]
    /\ toolUseBlocks = [r \in Runs |-> <<>>]
    /\ toolResults = [r \in Runs |-> <<>>]
    /\ idx = [r \in Runs |-> 0]
    /\ toolCallLogs = [r \in Runs |-> <<>>]
    /\ agentResult = [r \in Runs |-> NoResult]
    /\ llmCalls = [r \in Runs |-> 0]
    /\ nextToolUseId = 1
    /\ cancel = "none"
    /\ oplog = <<>>
    /\ providedHistory = <<>>
    /\ historyGiven = FALSE
    /\ repository = <<>>
    /\ backend = StoreBackend
    /\ RunsIdle
    /\ userMessage = "hello"
    /\ hiveConfig = NoHiveConfig
    /\ returned = [r \in Runs |-> FALSE]
    /\ sideEffects = <<>>
    /\ usageReports = {NoUsageReport}
    /\ usageTotals = [r \in Runs |-> ZeroUsage]
    /\ resultUsage = [r \in Runs |-> NoUsageSummary]
    /\ usageLog = <<>>
    /\ CtxIdle
    /\ ReviewIdle
    /\ TaskIdle
    /\ TodoIdle
    /\ TraceIdle

\* what a context tool or the tool "forget" of the run r has done is logged
\* and answered; the todo managers and the run's Context index stay
ContextToolDone(r, op, result) ==
    /\ LET outcome == [kind |-> "return", result |-> result, elapsed |-> 1]
       IN /\ Dispatched(r, executeTool(outcome))
          /\ oplog' = Append(oplog, [run |-> r, id |-> CurrentToolUse(r).id,
                                     outcome |-> outcome])
    /\ storeLog' = IF op = "read" THEN storeLog
                   ELSE Append(storeLog, [run |-> r, op |-> op,
                                          path |-> CurrentToolUse(r).input,
                                          value |-> ValueOf(CurrentToolUse(r).id)])
    /\ UNCHANGED <<maxIterations, contextManager, sent, llmCalls, nextToolUseId, cancel>>
    /\ UNCHANGED <<reviewVars, taskVars, ctxVars, todoVars, traceVars, callVars>>
    /\ UNCHANGED <<rootRuns, todoManagers, managerOf, contextOf, toolContext>>
    /\ UNCHANGED usageVars

\* context_write is executed: context.write(path, value, agentName)
ContextWrite(r) ==
    /\ pc[r] = "tools"
    /\ CurrentToolUse(r).name = "context_write"
    /\ CurrentToolUse(r).name \in getRunTools(r)
    /\ contexts' = [contexts EXCEPT ![contextOf[r]] =
                       write(@, CurrentToolUse(r).input, ValueOf(CurrentToolUse(r).id),
                             AgentName(r))]
    /\ ContextToolDone(r, "write", ToolResult(TRUE, "", "\"written\""))

\* context_read is executed: context.getEntry(path), value null when there
\* is no entry
ContextRead(r) ==
    /\ pc[r] = "tools"
    /\ CurrentToolUse(r).name = "context_read"
    /\ CurrentToolUse(r).name \in getRunTools(r)
    /\ UNCHANGED contexts
    /\ LET entry == getEntry(contexts[contextOf[r]], CurrentToolUse(r).input)
       IN ContextToolDone(r, "read",
             ToolResult(TRUE, "", IF entry.present THEN entry.value ELSE "null"))

\* the user's tool "forget" is executed: toolContext.context.delete(path)
ContextDelete(r) ==
    /\ pc[r] = "tools"
    /\ CurrentToolUse(r).name = "forget"
    /\ CurrentToolUse(r).name \in getRunTools(r)
    /\ contexts' = [contexts EXCEPT ![contextOf[r]] = delete(@, CurrentToolUse(r).input)]
    /\ ContextToolDone(r, "delete", ToolResult(TRUE, "", ""))

\* one step of the run r in SpecStore
StoreStep(r) ==
    \/ IterationStart(r)
    \/ LLMEnds(r)
    \/ LLMRequestsTools(r)
    \/ ContextWrite(r)
    \/ ContextRead(r)
    \/ ContextDelete(r)
    \/ SpawnSubAgent(r)
    \/ SubAgentReturns(r)
    \/ Finish(r)

NextStore ==
    \/ Run
    \/ \E r \in Runs : StoreStep(r)

\* the steps of a conversation: the root Hive is run, and run again once
\* the earlier run has settled
NextConversation ==
    \/ Run
    \/ RunAgain
    \/ Cancel
    \/ \E r \in Runs : Step(r)

\* the runs of SpecUsage: the caller requests no cancellation
NextUsage ==
    \/ Run
    \/ \E r \in Runs : Step(r)

(***************************************************************************)
(* The review tracker alone: one ReviewManager and its __review__ tool.    *)
(***************************************************************************)
InitReview ==
    /\ reviewConfig \in ReviewConfigs
    /\ currentReview = NoReview
    /\ reviewHistory = <<>>
    /\ reviewResult = NoReviewResult
    /\ reviewLog = <<>>
    /\ reviewClock = 0
    /\ CtxIdle
    /\ TaskIdle
    /\ TodoIdle
    /\ TraceIdle
    /\ LoopIdle

ReviewCalled(action, params, success) ==
    reviewLog' = Append(reviewLog, [action |-> action, params |-> params,
                                    success |-> success])

\* execute({action: "submit", passed, summary, issues})
ReviewSubmit ==
    /\ Len(reviewLog) < MaxReviewCalls
    /\ \E passed \in PassedInputs, summary \in SummaryInputs, issues \in IssuesInputs,
          now \in {reviewClock, reviewClock + 1} :
         LET params == [passed |-> passed, summary |-> summary, issues |-> issues]
         IN IF passed.type # "boolean"
            THEN /\ reviewResult' = [success |-> FALSE,
                                     error |-> "\"passed\" is required for submit action"]
                 /\ ReviewCalled("submit", params, FALSE)
                 /\ UNCHANGED <<currentReview, reviewHistory, reviewClock>>
            ELSE IF summary = ""
            THEN /\ reviewResult' = [success |-> FALSE,
                                     error |-> "\"summary\" is required for submit action"]
                 /\ ReviewCalled("submit", params, FALSE)
                 /\ UNCHANGED <<currentReview, reviewHistory, reviewClock>>
            ELSE LET out == submitReview(currentReview, reviewHistory,
                                         [passed |-> passed.value = "true",
                                          summary |-> summary,
                                          issues |-> IF issues.given THEN issues.items
                                                     ELSE <<>>],
                                         now)
                 IN /\ currentReview' = out.currentReview
                    /\ reviewHistory' = out.reviewHistory
                    /\ reviewClock' = now
                    /\ reviewResult' =
                         [success |-> TRUE,
                          data |-> [message |-> formatReviewResult(out.review),
                                    review |-> out.review,
                                    requiresApproval |->
                                        reviewConfig.requireApproval
                                        /\ ~(passed.value = "true")]]
                    /\ ReviewCalled("submit", params, TRUE)
    /\ UNCHANGED reviewConfig
    /\ UNCHANGED <<taskVars, ctxVars, todoVars, traceVars, loopVars>>

\* execute({action: "check"})
ReviewCheck ==
    /\ Len(reviewLog) < MaxReviewCalls
    /\ reviewResult' = [success |-> TRUE,
                        data |-> [enabled |-> reviewConfig.enabled,
                                  autoReview |-> reviewConfig.autoReview,
                                  requiresApproval |-> reviewConfig.requireApproval,
                                  categories |-> DEFAULT_REVIEW_CATEGORIES,
                                  hasCurrentReview |-> currentReview # NoReview]]
    /\ ReviewCalled("check", NoReviewParams, TRUE)
    /\ UNCHANGED <<reviewConfig, currentReview, reviewHistory, reviewClock>>
    /\ UNCHANGED <<taskVars, ctxVars, todoVars, traceVars, loopVars>>

\* execute({action: "status"})
ReviewStatus ==
    /\ Len(reviewLog) < MaxReviewCalls
    /\ reviewResult' =
         [success |-> TRUE,
          data |-> [currentReview |-> currentReview,
                    message |-> IF currentReview # NoReview
                                THEN formatReviewResult(currentReview)
                                ELSE "No review submitted yet",
                    totalReviews |-> Len(reviewHistory),
                    passedCount |-> Len(SelectSeq(reviewHistory,
                                                  LAMBDA rv : rv.passed))]]
    /\ ReviewCalled("status", NoReviewParams, TRUE)
    /\ UNCHANGED <<reviewConfig, currentReview, reviewHistory, reviewClock>>
    /\ UNCHANGED <<taskVars, ctxVars, todoVars, traceVars, loopVars>>

\* execute with an action the switch does not know
ReviewUnknownAction ==
    /\ Len(reviewLog) < MaxReviewCalls
    /\ reviewResult' = [success |-> FALSE, error |-> "Unknown action: approve"]
    /\ ReviewCalled("approve", NoReviewParams, FALSE)
    /\ UNCHANGED <<reviewConfig, currentReview, reviewHistory, reviewClock>>
    /\ UNCHANGED <<taskVars, ctxVars, todoVars, traceVars, loopVars>>

NextReview ==
    \/ ReviewSubmit
    \/ ReviewCheck
    \/ ReviewStatus
    \/ ReviewUnknownAction

(***************************************************************************)
(* The __task__ tool and the trace builder field of one Hive whose run     *)
(* method is called twice, the calls interleaving at their awaits.  Each   *)
(* action is the code between two awaits.  builderCalls records the calls  *)
(* of startSubAgent and endSubAgent: [builder, call, status, by, task].    *)
(***************************************************************************)
InitTask ==
    /\ hiveTrace \in BOOLEAN
    /\ currentTraceBuilder = NoBuilder
    /\ traceBuilderOf = [c \in HiveRunCalls |-> NoBuilder]
    /\ taskPc = [c \in HiveRunCalls |-> "idle"]
    /\ parentTraceBuilder = [c \in HiveRunCalls |-> NoBuilder]
    /\ taskCalls = [c \in HiveRunCalls |-> 0]
    /\ builderCalls = <<>>
    /\ ReviewIdle
    /\ CtxIdle
    /\ TodoIdle
    /\ TraceIdle
    /\ LoopIdle

BuilderCall(builder, call, status, c) ==
    IF builder = NoBuilder THEN <<>>
    ELSE <<[builder |-> builder, call |-> call, status |-> status, by |-> c,
            task |-> taskCalls[c]]>>

\* endSubAgent's status argument for a result of the sub-run
endStatus(status) ==
    IF status = "complete" THEN "complete"
    ELSE IF status = "interrupted" THEN "interrupted"
    ELSE "error"

\* the builder on which the catch block ends the span: it reads the Hive's
\* field again, the local of the try block is out of scope there
catchBuilder(field, local) == field

\* Hive.run up to the first await of executeLoop: the builder of this call
\* is made (the call's number names it) and stored in the field
HiveRun(c) ==
    /\ taskPc[c] = "idle"
    /\ LET traceBuilder == IF hiveTrace THEN c ELSE NoBuilder
       IN /\ traceBuilderOf' = [traceBuilderOf EXCEPT ![c] = traceBuilder]
          /\ currentTraceBuilder' = traceBuilder
    /\ taskPc' = [taskPc EXCEPT ![c] = "loop"]
    /\ UNCHANGED <<hiveTrace, parentTraceBuilder, taskCalls, builderCalls>>
    /\ UNCHANGED <<reviewVars, ctxVars, todoVars, traceVars, loopVars>>

\* execute of __task__ returns or throws before its try block: an unknown
\* agent, or a logger or progress callback that throws
TaskNotStarted(c) ==
    /\ taskPc[c] = "loop"
    /\ taskCalls[c] < MaxTaskCalls
    /\ taskCalls' = [taskCalls EXCEPT ![c] = @ + 1]
    /\ UNCHANGED <<hiveTrace, currentTraceBuilder, traceBuilderOf, taskPc,
                   parentTraceBuilder, builderCalls>>
    /\ UNCHANGED <<reviewVars, ctxVars, todoVars, traceVars, loopVars>>

\* execute of __task__ up to await subHive.run
TaskStart(c) ==
    /\ taskPc[c] = "loop"
    /\ taskCalls[c] < MaxTaskCalls
    /\ taskCalls' = [taskCalls EXCEPT ![c] = @ + 1]
    /\ parentTraceBuilder' = [parentTraceBuilder EXCEPT ![c] = currentTraceBuilder]
    /\ builderCalls' = builderCalls
         \o (IF currentTraceBuilder = NoBuilder THEN <<>>
             ELSE <<[builder |-> currentTraceBuilder, call |-> "startSubAgent",
                     status |-> "running", by |-> c, task |-> taskCalls[c] + 1]>>)
    /\ taskPc' = [taskPc EXCEPT ![c] = "sub"]
    /\ UNCHANGED <<hiveTrace, currentTraceBuilder, traceBuilderOf>>
    /\ UNCHANGED <<reviewVars, ctxVars, todoVars, traceVars, loopVars>>

\* subHive.run has returned a result: the rest of the try block, and the
\* catch block when a logger or progress callback throws after endSubAgent
TaskSubRunReturns(c) ==
    /\ taskPc[c] = "sub"
    /\ \E status \in {"complete", "interrupted", "needs_input"}, loggerThrows \in BOOLEAN :
         builderCalls' = builderCalls
            \o BuilderCall(parentTraceBuilder[c], "endSubAgent", endStatus(status), c)
            \o (IF loggerThrows
                THEN BuilderCall(catchBuilder(currentTraceBuilder, parentTraceBuilder[c]),
                                 "endSubAgent", "error", c)
                ELSE <<>>)
    /\ taskPc' = [taskPc EXCEPT ![c] = "loop"]
    /\ parentTraceBuilder' = [parentTraceBuilder EXCEPT ![c] = NoBuilder]
    /\ UNCHANGED <<hiveTrace, currentTraceBuilder, traceBuilderOf, taskCalls>>
    /\ UNCHANGED <<reviewVars, ctxVars, todoVars, traceVars, loopVars>>

\* subHive.run has thrown: the catch block
TaskSubRunThrows(c) ==
    /\ taskPc[c] = "sub"
    /\ builderCalls' = builderCalls
          \o BuilderCall(catchBuilder(currentTraceBuilder, parentTraceBuilder[c]),
                         "endSubAgent", "error", c)
    /\ taskPc' = [taskPc EXCEPT ![c] = "loop"]
    /\ parentTraceBuilder' = [parentTraceBuilder EXCEPT ![c] = NoBuilder]
    /\ UNCHANGED <<hiveTrace, currentTraceBuilder, traceBuilderOf, taskCalls>>
    /\ UNCHANGED <<reviewVars, ctxVars, todoVars, traceVars, loopVars>>

\* executeLoop returns and Hive.run with it; the field keeps its value
HiveRunReturns(c) ==
    /\ taskPc[c] = "loop"
    /\ taskPc' = [taskPc EXCEPT ![c] = "done"]
    /\ UNCHANGED <<hiveTrace, currentTraceBuilder, traceBuilderOf, parentTraceBuilder,
                   taskCalls, builderCalls>>
    /\ UNCHANGED <<reviewVars, ctxVars, todoVars, traceVars, loopVars>>

NextTask ==
    \/ \E c \in HiveRunCalls : HiveRun(c)
    \/ \E c \in HiveRunCalls : TaskNotStarted(c)
    \/ \E c \in HiveRunCalls : TaskStart(c)
    \/ \E c \in HiveRunCalls : TaskSubRunReturns(c)
    \/ \E c \in HiveRunCalls : TaskSubRunThrows(c)
    \/ \E c \in HiveRunCalls : HiveRunReturns(c)

(***************************************************************************)
(* The specifications.                                                    *)
(***************************************************************************)
SpecCtx == InitCtx /\ [][NextCtx]_vars

SpecTodo == InitTodo /\ [][NextTodo]_vars

SpecManager == InitManager /\ [][NextManager]_vars

SpecTrace == InitTrace /\ [][NextTrace]_vars

Spec == Init /\ [][Next]_vars

SpecResume == InitResume /\ [][Next]_vars

SpecUsage == InitUsage /\ [][NextUsage]_vars

SpecRepository == InitRepository /\ [][Next]_vars

SpecTodoRuns == InitTodoRuns /\ [][NextTodoRuns]_vars

SpecStore == InitStore /\ [][NextStore]_vars

SpecConversation == InitConversation /\ [][NextConversation]_vars

SpecReview == InitReview /\ [][NextReview]_vars

SpecTask == InitTask /\ [][NextTask]_vars

\* the backend and the tool handlers settle every call, and the event loop
\* runs every continuation that is ready
FairSpec ==
    Spec /\ WF_vars(\E r \in Runs : Step(r))

(***************************************************************************)
(* The claims.                                                            *)
(***************************************************************************)
Last(seq) == seq[Len(seq)]

\* the tool_use blocks of a message
ToolUsesOf(message) == SelectSeq(message.content, IsToolUse)

\* reply is a user message of blocks that holds exactly one tool_result
\* block for the id of every tool_use block of the assistant message
Answered(assistant, reply) ==
    /\ reply.role = "user"
    /\ reply.kind = "blocks"
    /\ \A i \in DOMAIN ToolUsesOf(assistant) :
          Cardinality({j \in DOMAIN reply.content :
                          /\ reply.content[j].type = "tool_result"
                          /\ reply.content[j].tool_use_id = ToolUsesOf(assistant)[i].id}) = 1

\* C1: while a call of the backend is in flight, every assistant message of
\* the run's history is followed at once by a user message that answers each
\* of its tool_use blocks with exactly one tool_result block of the same id
C1_EveryToolUseAnswered ==
    \A r \in Runs :
        pc[r] = "llm" =>
            \A k \in 1..Len(history[r]) :
                history[r][k].role = "assistant" =>
                    /\ k < Len(history[r])
                    /\ Answered(history[r][k], history[r][k + 1])

\* C1 witness: the backend is called a second time after a batch of an
\* unknown tool name and a registered tool whose handler threw
C1_Witness ==
    /\ pc["root"] = "llm"
    /\ llmCalls["root"] = 2
    /\ \E k \in 1..(Len(history["root"]) - 1) :
          LET uses == ToolUsesOf(history["root"][k])
              reply == history["root"][k + 1].content
          IN /\ history["root"][k].role = "assistant"
             /\ Len(uses) = 2
             /\ uses[1].name = "foo"
             /\ uses[2].name = "calc"
             /\ Len(reply) = 2
             /\ reply[2] = ToolResultBlock(uses[2].id,
                                           JSONstringify(ToolResult(FALSE, "boom", "")), TRUE)

\* the context manager of run r raised no context-limit error on history[r]
NoContextLimitError(r) ==
    contextManager[r].strategy = "error" =>
        isWithinLimits(estimateTotalTokens(history[r]), contextManager[r].maxTokens)

\* every response of the backend had stop reason tool_use and none asked
\* for the ask-user tool: the run did not end by either, nor by a failed call
AlwaysToolUse(r) ==
    /\ agentResult[r].status \notin {"complete", "needs_input"}
    /\ agentResult[r].error # "LLM request failed"

ExactlyNThenMaxIterations(r) ==
    /\ llmCalls[r] = maxIterations[r]
    /\ iteration[r] = maxIterations[r]
    /\ agentResult[r] = FaultResult(MaxIterationsError(maxIterations[r]))

C2_ExactlyNCallsUnlessContextLimit ==
    \A r \in Runs :
        /\ llmCalls[r] <= maxIterations[r]
        /\ (pc[r] = "done" /\ AlwaysToolUse(r) /\ NoContextLimitError(r))
              => ExactlyNThenMaxIterations(r)

RECURSIVE SumEvents(_, _)
SumEvents(events, c) ==
    IF events = <<>> THEN 0
    ELSE EventDelta(Head(events))[c] + SumEvents(Tail(events), c)

SubtreeSum(i, c) ==
    LET members == {j \in 1..Len(spans) : i \in AncestorsOrSelf(spans, j)}
        RECURSIVE Sum(_)
        Sum(S) == IF S = {} THEN 0
                  ELSE LET j == CHOOSE x \in S : TRUE
                       IN SumEvents(spans[j].events, c) + Sum(S \ {j})
    IN Sum(members)

\* C3: every counter of every span equals the sum over the events recorded
\* in the span's whole subtree
C3_Rollup ==
    \A i \in 1..Len(spans) : \A c \in Counters : spans[i].totals[c] = SubtreeSum(i, c)

\* C3 witness: a sub-agent span recorded an LLM call with a cost, and its
\* parent recorded an event of its own
C3_Witness ==
    \E i \in 1..Len(spans) :
        /\ spans[i].parent # 0
        /\ spans[i].totals["totalCost"] > 0
        /\ Len(spans[spans[i].parent].events) > 0


\* C4: at most one todo item is in_progress
C4_AtMostOneInProgress == CountStatus(todoItems, "in_progress") <= 1

\* C4 witness: after set and complete, one item is completed, one is in
\* progress and one is still pending
C4_Witness ==
    /\ CountStatus(todoItems, "completed") >= 1
    /\ CountStatus(todoItems, "in_progress") = 1
    /\ CountStatus(todoItems, "pending") >= 1


\* the tool_result block the loop built last: the last of toolResults while
\* the batch goes on, the last of the user message once it is finished
LastToolResultAfter(r) ==
    IF pc[r]' = "tools" THEN Last(toolResults[r]')
    ELSE Last(Last(history[r]').content)

\* C5: a step in which a registered tool's handler throws leaves the run in
\* its loop with no fault: the log gains a failed result whose error is the
\* thrown message, with the time the call took, and the loop has built the
\* error tool_result for the request
C5_DispatchNeverRaises ==
    [][\A r \in Runs :
          (/\ Len(oplog') = Len(oplog) + 1
           /\ Last(oplog').run = r
           /\ Last(oplog').outcome.kind \in {"throwError", "throwValue"})
          => LET thrown == Last(oplog').outcome
                 failed == ToolResult(FALSE,
                                      IF thrown.kind = "throwError" THEN thrown.message
                                      ELSE ToString(thrown.value),
                                      "")
             IN /\ pc[r]' \in {"tools", "top"}
                /\ agentResult[r]' = NoResult
                /\ toolCallLogs[r]' =
                      Append(toolCallLogs[r],
                             [name |-> CurrentToolUse(r).name,
                              input |-> CurrentToolUse(r).input,
                              output |-> failed,
                              durationMs |-> thrown.elapsed])
                /\ LastToolResultAfter(r) =
                      ToolResultBlock(CurrentToolUse(r).id, JSONstringify(failed), TRUE)
      ]_vars

\* C5 witness: a handler threw a value that is not an Error, and the run
\* went on to its next call of the backend
C5_Witness ==
    /\ pc["root"] = "llm"
    /\ \E e \in DOMAIN oplog : oplog[e].run = "root" /\ oplog[e].outcome.kind = "throwValue"
    /\ \E l \in DOMAIN toolCallLogs["root"] :
          /\ toolCallLogs["root"][l].output = ToolResult(FALSE, "17", "")
          /\ toolCallLogs["root"][l].durationMs = 2

\* C6: under truncate_old and summarize every result of manageContext starts
\* with the first message of its argument, and its estimated total is within
\* the budget whenever that first message alone is within the budget
CtxArg(k) == IF k = 1 THEN cmInput ELSE cmOutputs[k - 1].value

C6_PinnedKeptAndWithinBudget ==
    cmStrategy \in {"truncate_old", "summarize"} =>
        \A k \in 1..Len(cmOutputs) :
            LET arg == CtxArg(k)
                out == cmOutputs[k]
            IN /\ ~out.threw
               /\ arg # <<>> => (out.value # <<>> /\ out.value[1] = arg[1])
               /\ (arg = <<>> \/ estimateMessageTokens(arg[1]) <= cmMaxTokens)
                     => estimateTotalTokens(out.value) <= cmMaxTokens

\* C6 witness: an over-budget sequence was cut to the pinned first message
\* plus a proper, non-empty suffix
C6_Witness ==
    /\ cmStrategy = "truncate_old"
    /\ Len(cmOutputs) >= 1
    /\ estimateTotalTokens(cmInput) > cmMaxTokens
    /\ Len(cmOutputs[1].value) >= 2
    /\ Len(cmOutputs[1].value) < Len(cmInput)

\* C7: manageContext applied to its own result returns that result
C7_Idempotent ==
    (Len(cmOutputs) = 2 /\ cmStrategy \in {"truncate_old", "summarize"})
        => cmOutputs[2].value = cmOutputs[1].value

\* C7 witness: the second call was made on a result whose pinned first
\* message alone exceeds the budget and from which messages had been dropped
C7_Witness ==
    /\ Len(cmOutputs) = 2
    /\ cmStrategy = "summarize"
    /\ Len(cmInput) >= 3
    /\ estimateMessageTokens(cmInput[1]) > cmMaxTokens
    /\ Len(cmOutputs[1].value) < Len(cmInput)
    /\ ~cmOutputs[2].threw

\* C8: once the signal is aborted or the predicate answers false, the next
\* pass through the top of the loop returns interrupted with the reason and
\* the iterations completed, and calls the backend no more
C8_CancellationChecked ==
    [][(cancel # "none" /\ pc["root"] = "top" /\ pc["root"]' # "top")
          => /\ pc["root"]' = "done"
             /\ agentResult["root"]'.status = "interrupted"
             /\ llmCalls["root"]' = llmCalls["root"]
      ]_vars

\* the position of the first ask-user request of a batch, 0 when it has none
AskPos(uses) ==
    IF \E i \in DOMAIN uses : uses[i].name = ASK_USER_TOOL_NAME
    THEN CHOOSE i \in DOMAIN uses :
            /\ uses[i].name = ASK_USER_TOOL_NAME
            /\ \A j \in 1..(i - 1) : uses[j].name # ASK_USER_TOOL_NAME
    ELSE 0

AssistantCount(r) ==
    Cardinality({k \in DOMAIN history[r] : history[r][k].role = "assistant"})

\* C9: an assistant message whose batch has the ask-user request at
\* position i is the last message of the history: the loop is at a request
\* no later than i or has returned needs_input with the question of request
\* i, no handler was invoked for a request after i, and the backend was not
\* called again
C9_AskUserShortCircuits ==
    \A r \in Runs : \A k \in DOMAIN history[r] :
        LET uses == ToolUsesOf(history[r][k])
            i == AskPos(uses)
        IN (history[r][k].role = "assistant" /\ i > 0) =>
              /\ k = Len(history[r])
              /\ pc[r] \in {"tools", "exec", "done"}
              /\ pc[r] = "tools" => idx[r] <= i
              /\ pc[r] = "exec" => idx[r] < i
              /\ pc[r] = "done" => agentResult[r] = NeedsInputResult(uses[i].input)
              /\ \A j \in (i + 1)..Len(uses) :
                    \A e \in DOMAIN oplog : oplog[e].id # uses[j].id
              /\ llmCalls[r] = AssistantCount(r)

\* C9 witness: the run returned needs_input for a batch of a registered
\* tool, which was executed, and the ask-user request after it
C9_Witness ==
    /\ pc["root"] = "done"
    /\ agentResult["root"].status = "needs_input"
    /\ LET uses == ToolUsesOf(Last(history["root"]))
       IN /\ Len(uses) = 2
          /\ uses[1].name = "calc"
          /\ uses[2].name = ASK_USER_TOOL_NAME
          /\ agentResult["root"].pendingQuestion = uses[2].input
          /\ \E e \in DOMAIN oplog : oplog[e].id = uses[1].id

\* the reason a sub-agent run that threw or was interrupted ended with
UnderlyingReason(sub) ==
    IF sub.status = "fault" THEN sub.error
    ELSE "Sub-agent was interrupted: " \o (IF sub.reason = "" THEN "unknown" ELSE sub.reason)

\* C10: the step in which __task__ returns from a sub-agent run that threw
\* or was interrupted leaves the parent in its loop with no fault: the log
\* gains a failed result carrying the reason, the error tool_result for the
\* request is built, and after the last request of the batch the parent's
\* next iteration begins
C10_SpawnNeverRaises ==
    [][(/\ pc["root"] = "exec"
        /\ pc["root"]' # "exec"
        /\ agentResult["sub"].status \in {"fault", "interrupted"})
          => LET out == Last(toolCallLogs["root"]').output
             IN /\ agentResult["root"]' = NoResult
                /\ Len(toolCallLogs["root"]') = Len(toolCallLogs["root"]) + 1
                /\ Last(toolCallLogs["root"]').name = TASK_TOOL_NAME
                /\ ~out.success
                /\ out.error = UnderlyingReason(agentResult["sub"])
                /\ LastToolResultAfter("root") =
                      ToolResultBlock(CurrentToolUse("root").id, JSONstringify(out), TRUE)
                /\ IF idx["root"] < Len(toolUseBlocks["root"])
                   THEN pc["root"]' = "tools" /\ iteration["root"]' = iteration["root"]
                   ELSE pc["root"]' = "top" /\ iteration["root"]' = iteration["root"] + 1
      ]_vars

\* C10 witness: a sub-agent ran out of iterations, its parent logged the
\* failed __task__ result and went on to call the backend again
C10_Witness ==
    /\ pc["root"] = "llm"
    /\ \E l \in DOMAIN toolCallLogs["root"] :
          /\ toolCallLogs["root"][l].name = TASK_TOOL_NAME
          /\ toolCallLogs["root"][l].output =
                ToolResult(FALSE, MaxIterationsError(maxIterations["sub"]), "")
    /\ Last(Last(history["root"]).content).is_error

\* C11: the step in which __task__ returns from a sub-agent run that ended
\* needs_input logs the result {success: false, error: "Sub-agent needs user
\* input", data: the sub-run's pending question}, builds the error
\* tool_result for the request and leaves the parent in its loop with no
\* result of its own
C11_SubNeedsInputIsFailedResult ==
    [][(/\ pc["root"] = "exec"
        /\ pc["root"]' # "exec"
        /\ agentResult["sub"].status = "needs_input")
          => LET out == Last(toolCallLogs["root"]').output
             IN /\ out = [success |-> FALSE, error |-> "Sub-agent needs user input",
                          data |-> "\"" \o agentResult["sub"].pendingQuestion \o "\""]
                /\ agentResult["root"]' = NoResult
                /\ LastToolResultAfter("root") =
                      ToolResultBlock(CurrentToolUse("root").id, JSONstringify(out), TRUE)
                /\ IF idx["root"] < Len(toolUseBlocks["root"])
                   THEN pc["root"]' = "tools" /\ iteration["root"]' = iteration["root"]
                   ELSE pc["root"]' = "top" /\ iteration["root"]' = iteration["root"] + 1
      ]_vars

\* C11 witness: a sub-agent asked the user, its parent logged the failed
\* __task__ result and has made its next call of the backend
C11_Witness ==
    /\ pc["root"] = "llm"
    /\ llmCalls["root"] = 2
    /\ \E l \in DOMAIN toolCallLogs["root"] :
          /\ toolCallLogs["root"][l].name = TASK_TOOL_NAME
          /\ toolCallLogs["root"][l].output.error = "Sub-agent needs user input"
          /\ toolCallLogs["root"][l].output.data # ""
    /\ Last(Last(history["root"]).content).is_error

\* the run r ended by a fault of the iteration budget or of the backend call
BudgetOrBackendFault(r) ==
    \/ /\ agentResult[r].error = MaxIterationsError(maxIterations[r])
       /\ iteration[r] = maxIterations[r]
    \/ agentResult[r].error = "LLM request failed"

\* the run r ended by the context-limit error of the error strategy
ContextLimitFault(r) ==
    /\ contextManager[r].strategy = "error"
    /\ estimateTotalTokens(history[r]) > contextManager[r].maxTokens
    /\ agentResult[r].error =
          "Context limit exceeded: " \o ToString(estimateTotalTokens(history[r]))
             \o " > " \o ToString(contextManager[r].maxTokens) \o " tokens"

RECURSIVE JoinLines(_)
JoinLines(texts) ==
    IF texts = <<>> THEN ""
    ELSE IF Len(texts) = 1 THEN texts[1].text
    ELSE texts[1].text \o "\n" \o JoinLines(Tail(texts))

IsText(block) == block.type = "text"

\* C14: the step in which the backend answers and the loop returns at once
\* without asking the user returns status complete: the history is the
\* earlier history plus the assistant message, the response is the text
\* blocks of that message joined by newlines, no further call is made, and
\* after the first response the run has made one call and logged no tool call
C14_NonToolUseCompletes ==
    [][\A r \in Runs :
          (/\ pc[r] = "llm"
           /\ pc[r]' = "done"
           /\ agentResult[r]'.status # "fault")
          => /\ agentResult[r]'.status = "complete"
             /\ Len(history[r]') = Len(history[r]) + 1
             /\ SubSeq(history[r]', 1, Len(history[r])) = history[r]
             /\ Last(history[r]').role = "assistant"
             /\ agentResult[r]'.response =
                   JoinLines(SelectSeq(Last(history[r]').content, IsText))
             /\ llmCalls[r]' = llmCalls[r]
             /\ toolCallLogs[r]' = toolCallLogs[r]
             /\ llmCalls[r] = 1 => (toolCallLogs[r] = <<>> /\ Len(history[r]) = 1)
      ]_vars

\* C14 witness: the first response of the run held two text blocks around a
\* thinking block; the run is complete after one call
C14_Witness ==
    /\ pc["root"] = "done"
    /\ agentResult["root"].status = "complete"
    /\ agentResult["root"].response = "a\nb"
    /\ history["root"][1] = UserText("hello")
    /\ Len(history["root"]) = 2
    /\ llmCalls["root"] = 1
    /\ toolCallLogs["root"] = <<>>


IsToolResult(block) == block.type = "tool_result"

\* the caller resumes from a history that ends with unanswered tool requests
ResumesPending ==
    /\ providedHistory # <<>>
    /\ Last(providedHistory).role = "assistant"
    /\ ToolUsesOf(Last(providedHistory)) # <<>>

\* C15: when run() starts from a history whose last message is an assistant
\* message with tool_use blocks, the history of the run continues it with
\* exactly one user message before the first LLM call (and an assistant
\* message after it); that message holds one tool_result per tool_use block,
\* same ids, same order: a success result with the new message as answer for
\* __ask_user__, an error result marked cancelled for any other request; the
\* new message follows as a text block only when no __ask_user__ was pending.
C15_ResumeAnswersPending ==
    (pc["root"] # "idle" /\ ResumesPending) =>
       LET uses == ToolUsesOf(Last(providedHistory))
           n == Len(providedHistory)
           reply == history["root"][n + 1]
           results == SelectSeq(reply.content, IsToolResult)
           hasAsk == \E i \in 1..Len(uses) : uses[i].name = "__ask_user__"
       IN /\ Len(history["root"]) > n
          /\ SubSeq(history["root"], 1, n) = providedHistory
          /\ reply.role = "user"
          /\ llmCalls["root"] = 0 => Len(history["root"]) = n + 1
          /\ Len(history["root"]) > n + 1 => history["root"][n + 2].role = "assistant"
          /\ Len(results) = Len(uses)
          /\ \A i \in 1..Len(uses) :
                /\ reply.content[i] = results[i]
                /\ results[i].tool_use_id = uses[i].id
                /\ IF uses[i].name = "__ask_user__"
                   THEN /\ results[i].content =
                              "{\"success\":true,\"data\":{\"answer\":\"" \o userMessage \o "\"}}"
                        /\ ~results[i].is_error
                   ELSE /\ results[i].content =
                              "{\"success\":false,\"error\":\"Operation cancelled - execution was interrupted\"}"
                        /\ results[i].is_error
          /\ reply.content = IF hasAsk THEN results
                             ELSE Append(results, [type |-> "text", text |-> userMessage])

\* a run resumed with a cancelled request and a question pending has made its
\* first LLM call
C15_Witness ==
    /\ ResumesPending
    /\ \E i, j \in 1..Len(ToolUsesOf(Last(providedHistory))) :
          /\ ToolUsesOf(Last(providedHistory))[i].name = "__ask_user__"
          /\ ToolUsesOf(Last(providedHistory))[j].name # "__ask_user__"
    /\ llmCalls["root"] = 1
    /\ Len(history["root"]) = Len(providedHistory) + 2

EffectKinds == {"saveHistory", "endTrace", "record"}

\* C16: saving the history, ending the trace and calling the recorder happen
\* at most once each, only in the root run and only once its turn loop has
\* returned a result; a sub-agent run makes none of these calls, whether it
\* returns or fails.
C16_RootFinishesOnce ==
    /\ \A i \in 1..Len(sideEffects) : sideEffects[i].run = "root"
    /\ \A kind \in EffectKinds :
          Cardinality({i \in 1..Len(sideEffects) : sideEffects[i].kind = kind}) <= 1
    /\ sideEffects # <<>> =>
          /\ pc["root"] = "done"
          /\ agentResult["root"].status \in {"complete", "needs_input", "interrupted"}

\* the root run has made the three calls after a sub-agent ran to its end
C16_Witness ==
    /\ \E i \in 1..Len(oplog) : oplog[i].run = "root" /\ oplog[i].outcome.kind = "spawn"
    /\ \E i \in 1..Len(oplog) : oplog[i].run = "sub"
    /\ pc["sub"] = "idle"
    /\ [i \in 1..Len(sideEffects) |-> sideEffects[i].kind] = <<"saveHistory", "endTrace", "record">>

\* C17: after set with n >= 1 items and then k complete actions (1 <= k <= n),
\* with nothing but list calls in between, the k-th complete has returned
\* the k-th item as completed and the (k+1)-th as next (none when k = n), the
\* first k items and no other are completed, and the progress is total n,
\* completed k, inProgress 1 if k < n else 0, pending n - k - inProgress.
C17_CompletesInListOrder ==
    LET n == Len(todoItems)
        k == todoCompletes
        inProgress == IF k < n THEN 1 ELSE 0
    IN (n >= 1 /\ 1 <= k /\ k <= n) =>
          /\ completeReturn.completed # NoItem
          /\ completeReturn.completed.id = todoItems[k].id
          /\ completeReturn.completed.content = todoItems[k].content
          /\ IF k < n
             THEN /\ completeReturn.next # NoItem
                  /\ completeReturn.next.id = todoItems[k + 1].id
                  /\ completeReturn.next.content = todoItems[k + 1].content
             ELSE completeReturn.next = NoItem
          /\ \A i \in 1..n : (todoItems[i].status = "completed") <=> (i <= k)
          /\ getProgress(todoItems) =
                [total |-> n, completed |-> k, pending |-> n - k - inProgress,
                 inProgress |-> inProgress]
          /\ todoLastAction \in {"complete", "list"} =>
                todoResult.data.progress =
                   [total |-> n, completed |-> k, pending |-> n - k - inProgress,
                    inProgress |-> inProgress]

\* three items were set and the second complete has just returned
C17_Witness ==
    /\ Len(todoItems) = 3
    /\ todoCompletes = 2
    /\ todoLastAction = "complete"
    /\ completeReturn.next # NoItem

\* the ids of a sequence of tool_use or tool_result blocks
UseIds(blocks) == [i \in 1..Len(blocks) |-> blocks[i].id]
ResultIds(blocks) == [i \in 1..Len(blocks) |-> blocks[i].tool_use_id]

\* the position of the request id in the run's history: the index of its
\* assistant message and its index among that message's tool_use blocks
RequestPos(r, id) ==
    CHOOSE pos \in (1..Len(history[r])) \X (1..(MaxToolUses + 1)) :
       /\ pos[2] <= Len(ToolUsesOf(history[r][pos[1]]))
       /\ ToolUsesOf(history[r][pos[1]])[pos[2]].id = id

Requested(r, id) ==
    \E k \in 1..Len(history[r]) :
       \E i \in 1..Len(ToolUsesOf(history[r][k])) : ToolUsesOf(history[r][k])[i].id = id

\* C18: the handlers of one turn's requests are invoked one after another in
\* the order of the tool_use blocks (a request is invoked only when all
\* requests before it in the batch have their result), and the one user
\* message appended after the batch holds exactly their tool_result blocks
\* in that order, each made from the outcome of its own request.
C18_SequentialInRequestOrder ==
    \A r \in Runs :
       /\ \A a, b \in 1..Len(oplog) :
             (a < b /\ oplog[a].run = r /\ oplog[b].run = r
                /\ Requested(r, oplog[a].id) /\ Requested(r, oplog[b].id)) =>
                   LET pa == RequestPos(r, oplog[a].id)
                       pb == RequestPos(r, oplog[b].id)
                   IN pa[1] < pb[1] \/ (pa[1] = pb[1] /\ pa[2] < pb[2])
       /\ pc[r] \in {"tools", "exec"} =>
             /\ Len(toolResults[r]) = idx[r] - 1
             /\ ResultIds(toolResults[r]) = SubSeq(UseIds(toolUseBlocks[r]), 1, idx[r] - 1)
             /\ toolUseBlocks[r] = ToolUsesOf(Last(history[r]))
             /\ \A a \in 1..Len(oplog) :
                   (oplog[a].run = r /\ oplog[a].id \in {toolUseBlocks[r][i].id :
                                                           i \in idx[r]..Len(toolUseBlocks[r])})
                      => (pc[r] = "exec" /\ oplog[a].id = toolUseBlocks[r][idx[r]].id)
       /\ \A k \in 1..(Len(history[r]) - 1) :
             (history[r][k].role = "assistant" /\ ToolUsesOf(history[r][k]) # <<>>) =>
                LET uses == ToolUsesOf(history[r][k])
                    reply == history[r][k + 1]
                IN /\ reply.role = "user"
                   /\ ResultIds(reply.content) = UseIds(uses)
                   /\ \A i \in 1..Len(uses) : reply.content[i].type = "tool_result"
                   /\ k + 2 <= Len(history[r]) => history[r][k + 2].role = "assistant"
                   /\ \A a \in 1..Len(oplog) : \A i \in 1..Len(uses) :
                         (oplog[a].run = r /\ oplog[a].id = uses[i].id
                            /\ oplog[a].outcome.kind = "return") =>
                               /\ reply.content[i].content = JSONstringify(oplog[a].outcome.result)
                               /\ reply.content[i].is_error = ~oplog[a].outcome.result.success

\* a batch of two registered tools has been executed, with different
\* outcomes, and answered
C18_Witness ==
    /\ Len(history["root"]) >= 3
    /\ Len(ToolUsesOf(history["root"][2])) = 2
    /\ Len(oplog) = 2
    /\ oplog[1].run = "root" /\ oplog[2].run = "root"
    /\ oplog[1].outcome.kind = "return" /\ oplog[2].outcome.kind = "return"
    /\ oplog[1].outcome.result.success /\ ~oplog[2].outcome.result.success
    /\ Len(history["root"][3].content) = 2

\* the handler invocations of the run r, in order
OpsOf(r) == SelectSeq(oplog, LAMBDA e : e.run = r)

\* C19: a sub-agent's run exists only while its parent waits in the spawn
\* tool call; while the parent waits it makes no LLM call, invokes no tool
\* handler and appends nothing to its history, and every LLM call and tool
\* execution of the sub-agent happens while the parent waits.
C19_SubAgentNested ==
    [][ /\ pc'["sub"] # "idle" => pc'["root"] = "exec"
        /\ pc["root"] = "exec" =>
              /\ llmCalls'["root"] = llmCalls["root"]
              /\ OpsOf("root")' = OpsOf("root")
              /\ pc'["root"] = "exec" => history'["root"] = history["root"]
        /\ (llmCalls'["sub"] > llmCalls["sub"] \/ Len(OpsOf("sub")') > Len(OpsOf("sub"))) =>
              /\ pc["root"] = "exec" /\ pc'["root"] = "exec"
              /\ Last(OpsOf("root")).outcome.kind = "spawn"
      ]_vars

\* the sub-agent has called the backend and run a tool while its parent waits
C19_Witness ==
    /\ pc["root"] = "exec"
    /\ llmCalls["sub"] >= 1
    /\ OpsOf("sub") # <<>>
    /\ pc["sub"] = "top"

IsPrefix(s, t) == Len(s) <= Len(t) /\ SubSeq(t, 1, Len(s)) = s

InProgress(items) == {i \in 1..Len(items) : items[i].status = "in_progress"}

\* C21: after any sequence of TodoManager operations (add, setAll, startTask,
\* completeTask, completeCurrentAndNext) with any ids and statuses, at most
\* one item is in_progress, and an item that is in_progress is the one
\* getCurrentTask returns.
C21_ManagerSingleInProgress ==
    /\ Cardinality(InProgress(todoItems)) <= 1
    /\ \A i \in InProgress(todoItems) :
          getCurrentTask(todoItems, currentTaskId) = todoItems[i]

\* C22: in no step does the status of a todo item change to completed unless
\* it was in_progress immediately before the step.
C22_CompletedOnlyFromInProgress ==
    [][ \A i \in 1..Len(todoItems) : \A j \in 1..Len(todoItems') :
           (todoItems'[j].id = todoItems[i].id
              /\ todoItems'[j].status = "completed"
              /\ todoItems[i].status # "completed")
           => todoItems[i].status = "in_progress"
      ]_vars

\* the estimated tokens of the first message and the last l messages
PinnedPlusSuffix(msgs, l) ==
    estimateMessageTokens(msgs[1])
       + estimateTotalTokens(SubSeq(msgs, Len(msgs) - l + 1, Len(msgs)))

\* the number of messages a backward scan takes from the end: it stops at
\* the first one that would push the total over the budget
SuffixKept(msgs, budget) ==
    LET fits == {l \in 0..(Len(msgs) - 1) :
                    \A m \in 1..l : PinnedPlusSuffix(msgs, m) <= budget}
    IN CHOOSE l \in fits : \A m \in fits : m <= l

ReferenceTruncation(msgs, budget) ==
    IF estimateTotalTokens(msgs) <= budget THEN msgs
    ELSE <<msgs[1]>> \o SubSeq(msgs, Len(msgs) - SuffixKept(msgs, budget) + 1, Len(msgs))

\* C25: under truncate_old and under summarize manageContext returns the
\* reference result: the input when its estimate is within the budget,
\* otherwise the first message and the longest suffix of the others that a
\* backward scan from the end takes before the first message that does not fit.
C25_TruncationIsReference ==
    cmStrategy \in {"truncate_old", "summarize"} =>
        \A k \in 1..Len(cmOutputs) :
            /\ ~cmOutputs[k].threw
            /\ cmOutputs[k].value = ReferenceTruncation(CtxArg(k), cmMaxTokens)

\* under summarize an over-budget input lost an older message that would
\* have fitted beside the messages kept
C25_Witness ==
    /\ cmStrategy = "summarize"
    /\ Len(cmOutputs) >= 1
    /\ estimateTotalTokens(cmInput) > cmMaxTokens
    /\ Len(cmOutputs[1].value) >= 2
    /\ \E j \in 2..(Len(cmInput) - Len(cmOutputs[1].value) + 1) :
          estimateTotalTokens(cmOutputs[1].value) + estimateMessageTokens(cmInput[j])
             <= cmMaxTokens

\* C26: when an iteration of a run whose strategy is error starts, the run
\* fails with the context-limit error naming the estimated and the maximum
\* token counts, without a call of the backend, exactly when the estimate of
\* its history exceeds the budget; otherwise the backend is called with the
\* history unchanged.
C26_ErrorStrategyRaisesBeforeCall ==
    [][ \A r \in Runs :
           (/\ contextManager[r].strategy = "error"
            /\ pc[r] = "top" /\ pc'[r] # "top"
            /\ iteration[r] < maxIterations[r]) =>
              IF estimateTotalTokens(history[r]) > contextManager[r].maxTokens
              THEN /\ pc'[r] = "done"
                   /\ agentResult'[r].status = "fault"
                   /\ agentResult'[r].error =
                         "Context limit exceeded: "
                            \o ToString(estimateTotalTokens(history[r])) \o " > "
                            \o ToString(contextManager[r].maxTokens) \o " tokens"
                   /\ llmCalls'[r] = llmCalls[r]
                   /\ sent'[r] = sent[r]
              ELSE /\ pc'[r] = "llm"
                   /\ llmCalls'[r] = llmCalls[r] + 1
                   /\ sent'[r] = history[r]
                   /\ agentResult'[r] = agentResult[r]
      ]_vars

\* a run under the error strategy made one call within the budget and then
\* failed at the start of its second iteration
C26_Witness ==
    /\ contextManager["root"].strategy = "error"
    /\ pc["root"] = "done"
    /\ llmCalls["root"] = 1
    /\ iteration["root"] = 1
    /\ sent["root"] = <<history["root"][1]>>
    /\ agentResult["root"].error =
          "Context limit exceeded: " \o ToString(estimateTotalTokens(history["root"]))
             \o " > " \o ToString(SmallBudget) \o " tokens"

\* C27: a set action with a non-empty item list leaves exactly the given
\* items in the given order, the first in_progress and current, all others
\* pending, whatever the list held before; with an empty or missing item
\* list it returns a failed result and leaves list and current task as they were.
C27_SetReplacesList ==
    [][ todoLastAction' = "set" =>
           IF todoInput' = <<>>
           THEN /\ ~todoResult'.success
                /\ todoResult'.error = "Items array is required for \"set\" action"
                /\ todoItems' = todoItems
                /\ currentTaskId' = currentTaskId
           ELSE /\ todoResult'.success
                /\ Len(todoItems') = Len(todoInput')
                /\ \A i \in 1..Len(todoItems') :
                      /\ todoItems'[i].content = todoInput'[i].content
                      /\ todoItems'[i].activeForm = todoInput'[i].activeForm
                      /\ todoItems'[i].status = IF i = 1 THEN "in_progress" ELSE "pending"
                /\ currentTaskId' = todoItems'[1].id
                /\ todoResult'.data.todos = todoItems'
      ]_vars

\* a list of two items has replaced an earlier list of three
C27_Witness ==
    /\ todoLastAction = "set"
    /\ Len(todoInput) = 2
    /\ Len(todoItems) = 2
    /\ todoItems[1].id = 4
    /\ todoItems[2].status = "pending"

\* the index of the last spawn entry of the handler log, 0 when there is none
LastSpawn ==
    IF \E i \in 1..Len(oplog) : oplog[i].outcome.kind = "spawn"
    THEN CHOOSE i \in 1..Len(oplog) :
            /\ oplog[i].outcome.kind = "spawn"
            /\ \A j \in (i + 1)..Len(oplog) : oplog[j].outcome.kind # "spawn"
    ELSE 0

\* the handler invocations of the present run r: for the sub-agent those
\* since it was spawned
RunOps(r) ==
    IF r = "root" THEN OpsOf("root")
    ELSE SelectSeq(SubSeq(oplog, LastSpawn + 1, Len(oplog)), LAMBDA e : e.run = r)

\* the ToolResult the loop logs for a handler that returned or threw
LoggedOutput(outcome) ==
    CASE outcome.kind = "return" -> outcome.result
      [] outcome.kind = "throwError" ->
            [success |-> FALSE, error |-> outcome.message, data |-> ""]
      [] outcome.kind = "throwValue" ->
            [success |-> FALSE, error |-> ToString(outcome.value), data |-> ""]

\* C28: the tool-call log of a run only grows at its end, and holds one entry
\* for each handler invocation that has ended, in the order of the
\* invocations, with the request's name and input, the duration measured and
\* the result, whether the handler returned a success, returned a failure
\* or threw; no entry names the ask-user tool or a tool that is not registered.
C28_ToolCallLogComplete ==
    /\ [](\A r \in Runs :
            pc[r] # "idle" =>
               LET ops == RunOps(r)
                   ended == IF pc[r] = "exec" THEN Len(ops) - 1 ELSE Len(ops)
               IN /\ Len(toolCallLogs[r]) = ended
                  /\ \A k \in 1..ended :
                        /\ Requested(r, ops[k].id)
                        /\ LET pos == RequestPos(r, ops[k].id)
                               use == ToolUsesOf(history[r][pos[1]])[pos[2]]
                           IN /\ toolCallLogs[r][k].name = use.name
                              /\ toolCallLogs[r][k].input = use.input
                        /\ toolCallLogs[r][k].name \in getRunTools(r) \ {"__ask_user__"}
                        /\ ops[k].outcome.kind # "spawn" =>
                              /\ toolCallLogs[r][k].durationMs = ops[k].outcome.elapsed
                              /\ toolCallLogs[r][k].output = LoggedOutput(ops[k].outcome))
    /\ [][ \A r \in Runs :
              (pc[r] # "idle" /\ pc'[r] # "idle") => IsPrefix(toolCallLogs[r], toolCallLogs'[r])
         ]_vars

\* a finished run has logged a handler that threw and a handler that
\* returned a failure, each with its duration
C28_Witness ==
    /\ Len(toolCallLogs["root"]) = 2
    /\ oplog[1].outcome.kind = "throwValue"
    /\ oplog[2].outcome.kind = "return" /\ ~oplog[2].outcome.result.success
    /\ toolCallLogs["root"][1].durationMs = 2
    /\ toolCallLogs["root"][2].durationMs = 5
    /\ pc["root"] = "done"

\* the sum of a field over the usage reports of the responses to the run r
RECURSIVE SumReports(_, _, _)
SumReports(log, r, field) ==
    IF log = <<>> THEN 0
    ELSE (IF Head(log).run = r THEN Head(log).report[field] ELSE 0)
            + SumReports(Tail(log), r, field)

ReturnedResult(r) == pc[r] = "done" /\ agentResult[r].status \in {"complete", "needs_input"}

\* C30 as stated: the usage of a returned result equals, field by field, the
\* sums of the input, output, cache-write and cache-read counts reported by
\* the LLM calls of the run's own loop.
C30_UsageIsSumOfOwnCalls ==
    ReturnedResult("root") =>
        /\ resultUsage["root"].totalInputTokens = SumReports(usageLog, "root", "inputTokens")
        /\ resultUsage["root"].totalOutputTokens = SumReports(usageLog, "root", "outputTokens")
        /\ resultUsage["root"].cacheCreationInputTokens =
              SumReports(usageLog, "root", "cacheCreationInputTokens")
        /\ resultUsage["root"].cacheReadInputTokens =
              SumReports(usageLog, "root", "cacheReadInputTokens")

\* C30, amended: the input and output totals of a returned result equal the
\* sums over the LLM calls of the run's own loop, each call counted once and
\* no call of a sub-agent run; each cache field equals its sum when that is
\* greater than 0 and is undefined when it is 0.
C30_UsageIsSumCacheUndefinedAtZero ==
    ReturnedResult("root") =>
        LET cacheWritten == SumReports(usageLog, "root", "cacheCreationInputTokens")
            cacheRead == SumReports(usageLog, "root", "cacheReadInputTokens")
        IN /\ resultUsage["root"].totalInputTokens = SumReports(usageLog, "root", "inputTokens")
           /\ resultUsage["root"].totalOutputTokens =
                 SumReports(usageLog, "root", "outputTokens")
           /\ resultUsage["root"].cacheCreationInputTokens =
                 IF cacheWritten > 0 THEN cacheWritten ELSE Undefined
           /\ resultUsage["root"].cacheReadInputTokens = IF cacheRead > 0 THEN cacheRead ELSE Undefined
           /\ Cardinality({i \in 1..Len(usageLog) : usageLog[i].run = "root"})
                 = llmCalls["root"]

\* a run returned after two calls with different reports, between which its
\* sub-agent made a call that reported tokens
C30_Witness ==
    /\ ReturnedResult("root")
    /\ llmCalls["root"] = 2
    /\ Len(usageLog) = 3
    /\ usageLog[1].run = "root" /\ usageLog[1].report.cacheUsage
    /\ usageLog[2].run = "sub" /\ usageLog[2].report.usage
    /\ usageLog[3].run = "root" /\ usageLog[3].report.usage /\ ~usageLog[3].report.cacheUsage
    /\ resultUsage["root"].totalInputTokens = 4

\* C29: when a root run with a conversation id and a repository returns a
\* result (complete, needs_input or interrupted), the history stored for
\* that id equals result.history; the stored history changes on no other
\* step, so after a run that ends with a fault it is what it was before
C29_StoredHistoryIsResultOrUntouched ==
    /\ [](hiveConfig.repository /\ returned["root"]
            => /\ agentResult["root"].status \in {"complete", "needs_input", "interrupted"}
               /\ repository = history["root"])
    /\ [][repository' # repository
            => /\ ~returned["root"] /\ returned'["root"]
               /\ agentResult["root"].status # "fault"]_vars

\* a stored conversation that waited for the user was loaded, the run
\* returned a result, and the stored history is the longer one
C29_Witness ==
    /\ hiveConfig.repository
    /\ ~historyGiven
    /\ returned["root"]
    /\ IsPrefix(StoredWaiting, repository)
    /\ Len(repository) > Len(StoredWaiting)

\* the items the __todo__ tool of the run r works on and shows
RunTodos(r) == IF managerOf[r] = 0 THEN <<>> ELSE todoManagers[managerOf[r]].items

\* C23: every run, of the root Hive or of a sub-agent, starts with an empty
\* todo list; the items a run sees are items set in that very run, never
\* those of an earlier run of the same Hive, of its parent or of its
\* sub-agent
C23_TodoListPerRun ==
    \A r \in Runs :
       pc[r] # "idle" =>
          /\ managerOf[r] # 0
          /\ \A q \in Runs \ {r} : managerOf[q] # managerOf[r]
          /\ iteration[r] = 0 /\ pc[r] \in {"top", "llm"} => RunTodos(r) = <<>>
          /\ \A i \in 1..Len(RunTodos(r)) :
                \E k \in 1..Len(history[r]) :
                   /\ history[r][k].role = "assistant"
                   /\ \E j \in 1..Len(history[r][k].content) :
                         /\ IsToolUse(history[r][k].content[j])
                         /\ history[r][k].content[j].name = TODO_TOOL_NAME
                         /\ history[r][k].content[j].input = RunTodos(r)[i].content

\* the root Hive runs for the second time with an empty list, while the
\* list of its first run and the list of a sub-agent's run hold items
C23_Witness ==
    /\ rootRuns = 2
    /\ pc["root"] = "llm"
    /\ RunTodos("root") = <<>>
    /\ todoManagers[1].items # <<>>
    /\ \E m \in 2..Len(todoManagers) :
          m # managerOf["root"] /\ todoManagers[m].items # <<>>

\* index in the log of the last write or delete on the path, 0 when none
LastOp(log, path) ==
    IF \E i \in 1..Len(log) : log[i].path = path
    THEN CHOOSE i \in 1..Len(log) :
            /\ log[i].path = path
            /\ \A j \in (i + 1)..Len(log) : log[j].path # path
    ELSE 0

\* what the last writer left on the path: the value of the most recent
\* write by any run, nothing when the path was never written or a delete
\* came after the write
LastWritten(log, path) ==
    IF LastOp(log, path) = 0 THEN UndefinedValue
    ELSE IF log[LastOp(log, path)].op = "delete" THEN UndefinedValue
    ELSE log[LastOp(log, path)].value

\* in this step the run r got the answer of a context_read
ReadAnswered(r) ==
    /\ Len(toolCallLogs'[r]) = Len(toolCallLogs[r]) + 1
    /\ toolCallLogs'[r][Len(toolCallLogs'[r])].name = "context_read"

\* C24: a parent run and its sub-agent work on one and the same context
\* store: whatever the order of their writes and deletes, reading a path
\* gives the value of the most recent write to it (last writer wins, a
\* deleted path reads as absent), for a read by Context.read and for the
\* answer of the context_read tool; so a value the sub-agent wrote is what
\* the parent reads after the spawn tool has returned
C24_OneContextLastWriterWins ==
    /\ [](/\ \A r \in Runs : pc[r] # "idle" => contextOf[r] = contextOf["root"]
          /\ \A r \in Runs : \A path \in Paths :
                contextOf[r] # 0 =>
                   read(contexts[contextOf[r]], path) = LastWritten(storeLog, path))
    /\ [][\A r \in Runs :
             ReadAnswered(r) =>
                LET call == toolCallLogs'[r][Len(toolCallLogs'[r])]
                    value == LastWritten(storeLog, call.input)
                IN call.output.data = IF value = UndefinedValue THEN "null" ELSE value]_vars

\* the parent wrote a path, its sub-agent wrote it again, the spawn tool
\* returned, and the parent's context_read was answered with the
\* sub-agent's value
C24_Witness ==
    /\ pc["sub"] = "idle"
    /\ \E i, j \in 1..Len(storeLog) :
          /\ j < i
          /\ storeLog[j].run = "root" /\ storeLog[j].op = "write"
          /\ storeLog[i].run = "sub" /\ storeLog[i].op = "write"
          /\ storeLog[i].path = storeLog[j].path
          /\ LastOp(storeLog, storeLog[i].path) = i
          /\ \E k \in 1..Len(toolCallLogs["root"]) :
                /\ toolCallLogs["root"][k].name = "context_read"
                /\ toolCallLogs["root"][k].input = storeLog[i].path
                /\ toolCallLogs["root"][k].output.data = storeLog[i].value

\* the least k with 4k >= n
CeilQuarter(n) == CHOOSE k \in 0..n : 4 * k >= n /\ \A j \in 0..(k - 1) : 4 * j < n

\* the texts a block holds that count for its estimate, none for a block of
\* unknown type
CountedTexts(block) ==
    CASE block.type = "text" -> <<block.text>>
      [] block.type = "thinking" -> <<block.thinking>>
      [] block.type = "tool_use" -> <<block.name, block.input>>
      [] block.type = "tool_result" -> <<block.content>>
      [] OTHER -> <<>>

RECURSIVE SumCeilQuarter(_)
SumCeilQuarter(texts) ==
    IF texts = <<>> THEN 0
    ELSE CeilQuarter(Len(Head(texts))) + SumCeilQuarter(Tail(texts))

RECURSIVE BlocksEstimate(_)
BlocksEstimate(blocks) ==
    IF blocks = <<>> THEN 0
    ELSE SumCeilQuarter(CountedTexts(Head(blocks))) + BlocksEstimate(Tail(blocks))

\* the plain texts among the messages handed to the context manager
PlainTexts == { cmInput[i].text : i \in { k \in 1..Len(cmInput) : cmInput[k].kind = "string" } }

\* C32: a text's estimate is ceil(length / 4) and does not decrease with the
\* length; a message's estimate is the sum of its blocks' estimates, a block
\* of unknown type counting 0 and a plain-text message estimated from its
\* string; the total of a sequence is the sum over its messages, so the
\* total with one more message is never lower; the count the context
\* manager keeps after a call is that total of the messages it was handed
C32_EstimateIsCeilSumMonotonic ==
    /\ \A t \in PlainTexts : estimateTokens(t) = CeilQuarter(Len(t))
    /\ \A t, u \in PlainTexts : Len(t) <= Len(u) => estimateTokens(t) <= estimateTokens(u)
    /\ \A i \in 1..Len(cmInput) :
          LET m == cmInput[i]
              before == estimateTotalTokens(SubSeq(cmInput, 1, i - 1))
              with == estimateTotalTokens(SubSeq(cmInput, 1, i))
          IN /\ estimateMessageTokens(m) =
                   IF m.kind = "string" THEN CeilQuarter(Len(m.text))
                   ELSE BlocksEstimate(m.content)
             /\ with = before + estimateMessageTokens(m)
             /\ with >= before
    /\ Len(cmOutputs) = 1 => cmCurrentTokens = estimateTotalTokens(cmInput)

\* the context manager counted a sequence that holds a plain text of a
\* length that is no multiple of 4 and a message with a block of unknown type
C32_Witness ==
    /\ Len(cmOutputs) = 1
    /\ cmCurrentTokens > 0
    /\ \E t \in PlainTexts : Len(t) % 4 # 0
    /\ \E i \in 1..Len(cmInput) :
          /\ cmInput[i].kind = "blocks"
          /\ \E j \in 1..Len(cmInput[i].content) :
                cmInput[i].content[j].type \notin {"text", "thinking", "tool_use", "tool_result"}

\* the ids of the tool_result blocks of a message
ResultIdsOf(message) ==
    IF message.kind # "blocks" THEN {}
    ELSE { message.content[j].tool_use_id :
              j \in { k \in 1..Len(message.content) : IsToolResult(message.content[k]) } }

\* the ids of the tool_use blocks of a message
UseIdsOf(message) ==
    IF message.kind # "blocks" THEN {}
    ELSE { message.content[j].id :
              j \in { k \in 1..Len(message.content) : IsToolUse(message.content[k]) } }

\* C33: in every message sequence passed to the LLM backend, each
\* tool_result block refers to a tool_use block with the same id in the
\* assistant message immediately before it in that sequence, also when
\* truncation has dropped older messages
C33_SentToolResultsAnswerPrecedingAssistant ==
    \A r \in Runs : \A k \in 1..Len(sent[r]) :
       ResultIdsOf(sent[r][k]) # {} =>
          /\ k > 1
          /\ sent[r][k - 1].role = "assistant"
          /\ ResultIdsOf(sent[r][k]) \subseteq UseIdsOf(sent[r][k - 1])

\* the text of the result Hive.run makes up for an interrupted invocation
CancelledText ==
    "{\"success\":false,\"error\":\"Operation cancelled - execution was interrupted\"}"

\* C36: when executeLoop returns needs_input, the returned history ends with
\* the assistant message that holds the ask-user request, and no
\* tool_result of that batch is in it, also not for the invocations of the
\* batch that were executed and logged; the next run answers every
\* invocation of the batch other than the question with the cancelled
\* result
C36_NeedsInputLeavesBatchUnanswered ==
    /\ [](\A r \in Runs :
             agentResult[r].status = "needs_input" =>
                /\ history[r] # <<>>
                /\ Last(history[r]).role = "assistant"
                /\ \E i \in 1..Len(ToolUsesOf(Last(history[r]))) :
                      /\ ToolUsesOf(Last(history[r]))[i].name = ASK_USER_TOOL_NAME
                      /\ ToolUsesOf(Last(history[r]))[i].input = agentResult[r].pendingQuestion
                /\ \A k \in 1..Len(history[r]) :
                      ResultIdsOf(history[r][k]) \cap UseIdsOf(Last(history[r])) = {})
    /\ [][(/\ pc["root"] = "done"
           /\ agentResult["root"].status = "needs_input"
           /\ pc'["root"] # "done")
             => LET uses == ToolUsesOf(Last(history["root"]))
                    n == Len(history["root"])
                    reply == history'["root"][n + 1]
                IN /\ Len(history'["root"]) = n + 1
                   /\ SubSeq(history'["root"], 1, n) = history["root"]
                   /\ reply.role = "user"
                   /\ reply.kind = "blocks"
                   /\ Len(reply.content) = Len(uses)
                   /\ \A i \in 1..Len(uses) :
                         /\ IsToolResult(reply.content[i])
                         /\ reply.content[i].tool_use_id = uses[i].id
                         /\ uses[i].name # ASK_USER_TOOL_NAME =>
                               /\ reply.content[i].content = CancelledText
                               /\ reply.content[i].is_error]_vars

\* the second run of a conversation starts from a batch in which a tool was
\* executed before the question was asked: the executed invocation gets the
\* cancelled result
C36_Witness ==
    /\ rootRuns = 2
    /\ iteration["root"] = 0
    /\ pc["root"] = "top"
    /\ Last(history["root"]).kind = "blocks"
    /\ Len(Last(history["root"]).content) = 2
    /\ Last(history["root"]).content[1].content = CancelledText
    /\ \E i \in 1..Len(oplog) :
          /\ oplog[i].id = Last(history["root"]).content[1].tool_use_id
          /\ oplog[i].outcome.kind = "return"

\* C40: in a conversation driven through run() alone, with a repository and
\* one conversation id, starting from nothing stored, the stored history
\* after any number of runs starts with a user message, ends with an
\* assistant message, and no two consecutive messages have the same role
C40_StoredHistoryAlternates ==
    repository # <<>> =>
       /\ repository[1].role = "user"
       /\ Last(repository).role = "assistant"
       /\ \A k \in 1..(Len(repository) - 1) : repository[k].role # repository[k + 1].role

\* the second run of the conversation has returned after the first had
\* asked the user, and its history is stored
C40_Witness ==
    /\ rootRuns = 2
    /\ returned["root"]
    /\ repository = history["root"]
    /\ \E k \in 1..Len(repository) : ResultIdsOf(repository[k]) # {}
    /\ Len(repository) >= 4

\* C37: a run created with disableAskUser, as every sub-agent's run is, has
\* no ask-user tool in its tool set and never ends with status needs_input
C37_SubAgentNeverNeedsInput ==
    /\ ASK_USER_TOOL_NAME \notin getRunTools("sub")
    /\ agentResult["sub"].status # "needs_input"

\* the text that answers a tool_use whose name is not in the run's tool set
UnknownToolText(name) == "{\"success\":false,\"error\":\"Unknown tool: " \o name \o "\"}"

\* C38: the Hive of a sub-agent is made without agents, so the tool set of
\* its run holds no spawn tool and every sub-agent run is started by a tool
\* call of the root run: no run of the spawn tool starts another one
C38_SubAgentsDoNotSpawn ==
    /\ [](/\ TASK_TOOL_NAME \notin getRunTools("sub")
          /\ \A i \in 1..Len(oplog) :
                oplog[i].outcome.kind = "spawn" => oplog[i].run = "root"
          /\ \A i \in 1..Len(toolCallLogs["sub"]) :
                toolCallLogs["sub"][i].name # TASK_TOOL_NAME)
    /\ [][pc["sub"] = "idle" /\ pc'["sub"] # "idle"
             => pc["root"] = "tools" /\ pc'["root"] = "exec"
                /\ CurrentToolUse("root").name = TASK_TOOL_NAME]_vars

\* the backend of a sub-agent asked for the spawn tool and was told that
\* the tool is unknown
C38_Witness ==
    /\ pc["sub"] \in {"top", "llm", "tools"}
    /\ \E k \in 1..Len(history["sub"]) :
          /\ history["sub"][k].kind = "blocks"
          /\ \E j \in 1..Len(history["sub"][k].content) :
                /\ IsToolResult(history["sub"][k].content[j])
                /\ history["sub"][k].content[j].content = UnknownToolText(TASK_TOOL_NAME)

\* in this step a tool of the run r was executed
ToolExecuted(r) ==
    /\ Len(oplog') = Len(oplog) + 1
    /\ oplog'[Len(oplog')].run = r
    /\ oplog'[Len(oplog')].outcome.kind # "spawn"

\* C39: whenever a tool of a run is executed, the remaining token budget in
\* the tool context it is handed equals max(0, budget - estimated tokens of
\* the run's message history at that moment), in every run of the Hive
C39_RemainingTokensCurrent ==
    [][\A r \in Runs :
          ToolExecuted(r) =>
             LET left == contextManager[r].maxTokens - estimateTotalTokens(history[r])
             IN toolContext[r].remainingTokens = IF left > 0 THEN left ELSE 0]_vars

\* the __review__ submit calls that passed validation, in call order
AcceptedSubmits == SelectSeq(reviewLog, LAMBDA c : c.action = "submit" /\ c.success)

C31_HistoryHoldsSubmits ==
    /\ Len(reviewHistory) = Len(AcceptedSubmits)
    /\ \A i \in 1..Len(reviewHistory) :
         /\ reviewHistory[i].passed = (AcceptedSubmits[i].params.passed.value = "true")
         /\ reviewHistory[i].summary = AcceptedSubmits[i].params.summary
         /\ reviewHistory[i].issues = AcceptedSubmits[i].params.issues.items
         /\ i > 1 => reviewHistory[i - 1].reviewedAt <= reviewHistory[i].reviewedAt
    /\ currentReview = IF reviewHistory = <<>> THEN NoReview ELSE Last(reviewHistory)

C31_QueriesReadOnly ==
    (/\ reviewLog' # reviewLog
     /\ Last(reviewLog').action \in {"check", "status"})
    => UNCHANGED <<reviewHistory, currentReview>>

\* C31: after any sequence of __review__ submit, check and status calls, the
\* review history holds every accepted submission in submission order, the
\* current review is the last one submitted, and a check or status call
\* changes neither the history nor the current review.
C31_ReviewHistoryInOrder ==
    /\ []C31_HistoryHoldsSubmits
    /\ [][C31_QueriesReadOnly]_vars

\* two different reviews were submitted and a status call then reported them
C31_Witness ==
    /\ Len(reviewHistory) = 2
    /\ reviewHistory[1].passed # reviewHistory[2].passed
    /\ Len(reviewLog) = 3
    /\ reviewLog[3].action = "status"
    /\ reviewResult.success
    /\ reviewResult.data.totalReviews = 2
    /\ reviewResult.data.currentReview = reviewHistory[2]

\* the startSubAgent and endSubAgent calls made by the n-th __task__ call of
\* the c-th Hive.run call, in order
CallsOfTask(c, n) == SelectSeq(builderCalls, LAMBDA e : e.by = c /\ e.task = n)

\* the n-th __task__ call of the c-th Hive.run call awaits its sub-run
TaskInFlight(c, n) == taskPc[c] = "sub" /\ taskCalls[c] = n

\* C34: on every path through the __task__ tool, each startSubAgent is
\* followed by exactly one endSubAgent before the tool returns, with status
\* complete, interrupted or error; endSubAgent is never called without a
\* preceding startSubAgent and never twice for one start, also when a logger
\* or progress callback throws after the sub-run has returned
C34_OneEndPerStart ==
    \A c \in HiveRunCalls : \A n \in 1..taskCalls[c] :
        LET calls == CallsOfTask(c, n)
        IN \/ calls = <<>>
           \/ /\ TaskInFlight(c, n)
              /\ Len(calls) = 1
              /\ calls[1].call = "startSubAgent"
           \/ /\ ~TaskInFlight(c, n)
              /\ Len(calls) = 2
              /\ calls[1].call = "startSubAgent"
              /\ calls[2].call = "endSubAgent"
              /\ calls[2].status \in {"complete", "interrupted", "error"}

\* C35: when two calls of run on one Hive interleave at their awaits, the
\* sub-agent spawned by a tool call of one of them is started and ended on
\* the trace builder of that call, never on the builder of the other
C35_SubAgentOnOwnBuilder ==
    \A i \in 1..Len(builderCalls) :
        builderCalls[i].builder = traceBuilderOf[builderCalls[i].by]

====
